---------------------------- MODULE Spec2Model ----------------------------
(***************************************************************************)
(* Model of the SUPARNA mission planner (404Avinash/suparna_beta).         *)
(*                                                                         *)
(*   SpecMap    : SurveillanceMap (src/src/core/map.py)                    *)
(*   SpecPlan   : CoveragePlanner.plan (src/src/planners/coverage.py)      *)
(*   SpecEnergy : EnergyManager (src/src/planners/energy.py)               *)
(*                                                                         *)
(* Lengths and coordinates are fixed-point integers: Scale units per       *)
(* metre.  Distances are compared through their squares wherever the       *)
(* source compares a distance with a length, so those tests are exact.     *)
(***************************************************************************)
EXTENDS Integers, Sequences, FiniteSets, TLC

VARIABLES
    start_position,   \* SurveillanceMap.start_position
    grid,             \* SurveillanceMap.grid          (cell -> CellType)
    coverage_grid,    \* SurveillanceMap.coverage_grid (cell -> 0..CovDen)
    obstacles,        \* SurveillanceMap.obstacles     (sequence of Obstacle)
    op,               \* the last call made on the map / manager, with its result
    ncalls,           \* number of mark_covered / query calls made so far
    planner,          \* CoveragePlanner parameters and the locals of plan()
    energy,           \* EnergyManager: _current_wh and budget.phases
    landing,          \* compute_descent_plan: its arguments, locals and DescentPlan
    pathfinder,       \* AStarPathfinder.find_path: its arguments, locals and result
    transition,       \* TransitionPlanner: the call being made and its result
    geometry          \* a call of normalize_angle or generate_dubins_path

vars == <<start_position, grid, coverage_grid, obstacles, op, ncalls, planner, energy,
          landing, pathfinder, transition, geometry>>

---------------------------------------------------------------------------
(* Bounds of the model *)

Scale == 100            \* fixed-point units per metre
MapWidth == 12          \* SurveillanceMap.width  (m)
MapHeight == 10          \* SurveillanceMap.height (m)
Resolution == 2         \* SurveillanceMap.resolution (m per cell)
ObstacleMargin == 1     \* SurveillanceMap.obstacle_margin (m)
NoFlyMargin == 2        \* SurveillanceMap.no_fly_margin (m)
CovDen == 4             \* coverage values are k / CovDen, k \in 0..CovDen
MaxObstacles == 2       \* add_obstacle calls
MaxCalls == 2           \* mark_covered / is_point_safe calls

---------------------------------------------------------------------------
(* Arithmetic helpers *)

\* Python int(a / b) for b > 0: truncation toward zero
Trunc(a, b) == IF a >= 0 THEN a \div b ELSE -((-a) \div b)

\* numpy ceil(a / b) for a >= 0, b > 0
CeilDiv(a, b) == (a + b - 1) \div b

Max(a, b) == IF a >= b THEN a ELSE b
Min(a, b) == IF a <= b THEN a ELSE b

\* Point.distance_to, squared (points are <<x, y>> in fixed-point units)
DistSq(p, q) == (p[1] - q[1]) * (p[1] - q[1]) + (p[2] - q[2]) * (p[2] - q[2])

\* p.distance_to(q) <= len   and   p.distance_to(q) < len
DistLeq(p, q, len) == len >= 0 /\ DistSq(p, q) <= len * len
DistLt(p, q, len) == len > 0 /\ DistSq(p, q) < len * len

Pt(x, y) == <<x * Scale, y * Scale>>

---------------------------------------------------------------------------
(* SurveillanceMap *)

FREE == 0
OBSTACLE == 1
NO_FLY == 2
SOFT_NO_FLY == 3
COVERED == 4
START == 5

width == MapWidth * Scale
height == MapHeight * Scale
resolution == Resolution * Scale
obstacle_margin == ObstacleMargin * Scale
no_fly_margin == NoFlyMargin * Scale

grid_width == CeilDiv(width, resolution)
grid_height == CeilDiv(height, resolution)

Cells == (0 .. grid_width - 1) \X (0 .. grid_height - 1)

_is_valid_cell(cell) ==
    /\ 0 <= cell[1] /\ cell[1] < grid_width
    /\ 0 <= cell[2] /\ cell[2] < grid_height

point_to_cell(point) == <<Trunc(point[1], resolution), Trunc(point[2], resolution)>>

\* (cell + 0.5) * resolution
cell_to_point(cell) ==
    <<((2 * cell[1] + 1) * resolution) \div 2, ((2 * cell[2] + 1) * resolution) \div 2>>

\* SurveillanceMap.__post_init__: both grids zero, START on the home cell
post_init_grid(start) ==
    [c \in Cells |-> IF c = point_to_cell(start) THEN START ELSE FREE]

post_init_coverage == [c \in Cells |-> 0]

\* the cell type and the margin _rasterize_obstacle uses for an obstacle
obstacle_cell_type(ob) ==
    IF ob.is_no_fly
    THEN (IF ob.is_soft THEN SOFT_NO_FLY ELSE NO_FLY)
    ELSE OBSTACLE

obstacle_margin_of(ob) == IF ob.is_no_fly THEN no_fly_margin ELSE obstacle_margin

\* the clamped bounding box scanned by _rasterize_obstacle and mark_covered
clamped_box(center, radius) ==
    { c \in Cells :
        /\ c[1] >= Max(0, Trunc(center[1] - radius, resolution))
        /\ c[1] < Min(grid_width, Trunc(center[1] + radius, resolution) + 1)
        /\ c[2] >= Max(0, Trunc(center[2] - radius, resolution))
        /\ c[2] < Min(grid_height, Trunc(center[2] + radius, resolution) + 1) }

\* the kind one cell gets when `ob` is rasterized over a cell of kind `old`
rasterize_cell_mut(old, ob, c) ==
    IF DistLeq(cell_to_point(c), ob.center, ob.radius)
    THEN obstacle_cell_type(ob)
    ELSE IF DistLeq(cell_to_point(c), ob.center, ob.radius + obstacle_margin_of(ob))
         THEN SOFT_NO_FLY
         ELSE old

rasterize_cell(old, ob, c) ==
    IF DistLeq(cell_to_point(c), ob.center, ob.radius)
    THEN (IF old < obstacle_cell_type(ob) THEN obstacle_cell_type(ob) ELSE old)
    ELSE IF DistLeq(cell_to_point(c), ob.center, ob.radius + obstacle_margin_of(ob))
         THEN (IF old = FREE THEN SOFT_NO_FLY ELSE old)
         ELSE old

_rasterize_obstacle(g, ob) ==
    LET box == clamped_box(ob.center, ob.radius + obstacle_margin_of(ob))
    IN  [c \in Cells |-> IF c \in box THEN rasterize_cell(g[c], ob, c) ELSE g[c]]

\* SurveillanceMap.is_point_safe on a grid g
is_point_safe_mut(g, point, check_soft) ==
    LET cell == point_to_cell(point)
    IN  IF ~_is_valid_cell(cell) THEN FALSE
        ELSE IF g[cell] \in {OBSTACLE, NO_FLY} THEN FALSE
        ELSE TRUE

is_point_safe(g, point, check_soft) ==
    LET cell == point_to_cell(point)
    IN  IF ~_is_valid_cell(cell) THEN FALSE
        ELSE IF g[cell] \in {OBSTACLE, NO_FLY} THEN FALSE
        ELSE IF check_soft /\ g[cell] = SOFT_NO_FLY THEN FALSE
        ELSE TRUE

\* the cells mark_covered updates: FREE cells of the clamped box within the disk
marked_cells(g, center, radius) ==
    { c \in clamped_box(center, radius) :
        DistLeq(cell_to_point(c), center, radius) /\ g[c] = FREE }

mark_covered_grid_mut(g, cov, center, radius, coverage_value) ==
    [c \in Cells |->
        IF c \in marked_cells(g, center, radius) THEN coverage_value ELSE cov[c]]

\* coverage_grid after mark_covered
mark_covered_grid(g, cov, center, radius, coverage_value) ==
    [c \in Cells |->
        IF c \in marked_cells(g, center, radius)
        THEN Max(cov[c], coverage_value)
        ELSE cov[c]]

\* the value mark_covered returns (newly_covered); 0.5 is CovDen / 2
mark_covered_count(g, cov, center, radius, coverage_value) ==
    LET new == mark_covered_grid(g, cov, center, radius, coverage_value)
    IN  Cardinality({ c \in marked_cells(g, center, radius) :
            2 * cov[c] < CovDen /\ 2 * new[c] >= CovDen })

\* SurveillanceMap.get_uncovered_cells
get_uncovered_cells(g, cov) == { c \in Cells : g[c] = FREE /\ 2 * cov[c] < CovDen }

---------------------------------------------------------------------------
(* Inputs of the map operations *)

StartChoices == { Pt(5, 3), Pt(1, 1) }

ObstacleCenters == { Pt(3, 3), Pt(5, 3) }

ObstacleChoices ==
    [ center : ObstacleCenters, radius : {2 * Scale},
      is_no_fly : BOOLEAN, is_soft : BOOLEAN ]

\* <<center, radius>> of the mark_covered calls: a disk over several cells, and
\* the one-cell disk (cell centre, resolution / 2) the planner uses
MarkChoices == { <<Pt(3, 3), 3 * Scale>>, <<cell_to_point(<<2, 2>>), resolution \div 2>> }
CoverageValues == { 1, CovDen \div 2, CovDen }

ProbePoints == { Pt(5, 3), Pt(3, 1), Pt(13, 1), Pt(-1, 1) }

NoOp == [name |-> "init"]
NoPlanner == [pc |-> "off"]
NoEnergy == [pc |-> "off"]
NoLanding == [pc |-> "off"]
NoPathfinder == [pc |-> "off"]
NoTransition == [pc |-> "off"]
NoGeometry == [pc |-> "off"]

---------------------------------------------------------------------------
(* SpecMap: construction, add_obstacle, mark_covered, is_point_safe *)

InitMap ==
    /\ start_position \in StartChoices
    /\ grid = post_init_grid(start_position)
    /\ coverage_grid = post_init_coverage
    /\ obstacles = <<>>
    /\ op = NoOp
    /\ ncalls = 0
    /\ planner = NoPlanner
    /\ energy = NoEnergy
    /\ landing = NoLanding
    /\ pathfinder = NoPathfinder
    /\ transition = NoTransition
    /\ geometry = NoGeometry

add_obstacle(ob) ==
    /\ Len(obstacles) < MaxObstacles
    /\ obstacles' = Append(obstacles, ob)
    /\ grid' = _rasterize_obstacle(grid, ob)
    /\ op' = [name |-> "add_obstacle", obstacle |-> ob]
    /\ UNCHANGED <<start_position, coverage_grid, ncalls, planner, energy, landing, pathfinder, transition, geometry>>

mark_covered(center, radius, coverage_value) ==
    /\ ncalls < MaxCalls
    /\ ncalls' = ncalls + 1
    /\ coverage_grid' = mark_covered_grid(grid, coverage_grid, center, radius, coverage_value)
    /\ op' = [name |-> "mark_covered", center |-> center, radius |-> radius,
              value |-> coverage_value,
              ret |-> mark_covered_count(grid, coverage_grid, center, radius, coverage_value)]
    /\ UNCHANGED <<start_position, grid, obstacles, planner, energy, landing, pathfinder, transition, geometry>>

is_point_safe_call(point, check_soft) ==
    /\ ncalls < MaxCalls
    /\ ncalls' = ncalls + 1
    /\ op' = [name |-> "is_point_safe", point |-> point, check_soft |-> check_soft,
              ret |-> is_point_safe(grid, point, check_soft)]
    /\ UNCHANGED <<start_position, grid, coverage_grid, obstacles, planner, energy, landing, pathfinder, transition, geometry>>

AddObstacleStep == \E ob \in ObstacleChoices : add_obstacle(ob)

MarkCoveredStep ==
    \E m \in MarkChoices, v \in CoverageValues : mark_covered(m[1], m[2], v)

IsPointSafeStep ==
    \E point \in ProbePoints, check_soft \in BOOLEAN : is_point_safe_call(point, check_soft)

NextMap == AddObstacleStep \/ MarkCoveredStep \/ IsPointSafeStep

SpecMap == InitMap /\ [][NextMap]_vars

---------------------------------------------------------------------------
(* Loiter (src/src/core/loiter.py) and fixed-point geometry *)

SqrtBetween[n \in Nat, lo \in Nat, hi \in Nat] ==
    IF lo >= hi THEN lo
    ELSE LET mid == (lo + hi + 1) \div 2
         IN  IF mid * mid <= n THEN SqrtBetween[n, mid, hi] ELSE SqrtBetween[n, lo, mid - 1]

\* math.sqrt, rounded down to a whole fixed-point unit
ISqrt(n) == SqrtBetween[n, 0, Min(n, 46340)]

\* Point.distance_to in fixed-point units
distance_to(p, q) == ISqrt(DistSq(p, q))

\* a / b rounded to the nearest unit, b > 0
RoundDiv(a, b) == IF a >= 0 THEN (2 * a + b) \div (2 * b) ELSE -((2 * (-a) + b) \div (2 * b))

\* radius * (cos h, sin h) for h = from.heading_to(to); atan2(0, 0) = 0
heading_offset(from, to, radius) ==
    LET d == distance_to(from, to)
    IN  IF d = 0 THEN <<radius, 0>>
        ELSE <<RoundDiv(radius * (to[1] - from[1]), d), RoundDiv(radius * (to[2] - from[2]), d)>>

\* LOITER_ENERGY_COST, in tenths
TIGHT_COST == 13
STANDARD_COST == 10
WIDE_COST == 8
RACETRACK_COST == 9

\* Loiter.revolutions default (0.5), in tenths
DefaultRevolutions10 == 5

\* Loiter.energy_cost = 2 pi r * revolutions * multiplier
energy_cost(radius, cost10) ==
    (((62832 * radius) \div 10000) * DefaultRevolutions10 * cost10) \div 100

\* create_loiter(center, type, radius, entry_heading = current_pos.heading_to(center))
\* with its entry and exit points (exit angle = entry heading + 2 pi * 0.5)
create_loiter(center, radius, current_pos) ==
    LET off == heading_offset(current_pos, center, radius)
    IN  [ center |-> center, radius |-> radius,
          entry |-> <<center[1] + off[1], center[2] + off[2]>>,
          exit  |-> <<center[1] - off[1], center[2] - off[2]>> ]

---------------------------------------------------------------------------
(* CoveragePlanner (src/src/planners/coverage.py) *)

SampleLimit == 1000     \* "if len(uncovered) < 1000"
SampleCap == 50         \* "sample_size = min(50, len(uncovered))"

SetMin(S) == CHOOSE x \in S : \A y \in S : x <= y
SetMax(S) == CHOOSE x \in S : \A y \in S : x >= y

\* spacing = loiter_radius * (2 - overlap_factor), overlap in tenths
spacing(p) == (p.loiter_radius * (20 - p.overlap10)) \div 10

\* the values x takes in "x = lo + r; while x < hi: ...; x += spacing"
RECURSIVE GridAxis(_, _, _)
GridAxis(x, hi, step) == IF x < hi THEN <<x>> \o GridAxis(x + step, hi, step) ELSE <<>>

\* the regular grid of _generate_candidates, x outer loop, y inner loop
grid_candidates(p, uncovered) ==
    IF uncovered = {} THEN <<>>
    ELSE LET min_x == SetMin({c[1] : c \in uncovered}) * resolution
             max_x == SetMax({c[1] : c \in uncovered}) * resolution
             min_y == SetMin({c[2] : c \in uncovered}) * resolution
             max_y == SetMax({c[2] : c \in uncovered}) * resolution
             xs == GridAxis(min_x + p.loiter_radius, max_x, spacing(p))
             ys == GridAxis(min_y + p.loiter_radius, max_y, spacing(p))
         IN  [ i \in 1 .. Len(xs) * Len(ys) |->
                 <<xs[((i - 1) \div Len(ys)) + 1], ys[((i - 1) % Len(ys)) + 1]>> ]

\* number of cells list(uncovered)[:sample_size] takes from the set
sample_size(uncovered) ==
    IF Cardinality(uncovered) < SampleLimit
    THEN Min(SampleCap, Cardinality(uncovered))
    ELSE 0

_is_valid_loiter_position_mut(p, center) ==
    /\ ~(center[1] < 0 \/ center[1] > width)
    /\ ~(center[2] < 0 \/ center[2] > height)
    /\ \A i \in 1 .. Len(obstacles) :
          ~DistLt(center, obstacles[i].center, obstacles[i].radius + p.loiter_radius)

_is_valid_loiter_position(p, center) ==
    /\ ~(center[1] < 0 \/ center[1] > width)
    /\ ~(center[2] < 0 \/ center[2] > height)
    /\ \A i \in 1 .. Len(obstacles) :
          ~DistLt(center, obstacles[i].center,
                  obstacles[i].radius + p.loiter_radius + obstacle_margin_of(obstacles[i]))

\* the unclamped bounding box scanned by _estimate_coverage and _mark_loiter_coverage
loiter_box(center, radius, uncovered) ==
    { c \in uncovered :
        /\ c[1] >= Trunc(center[1] - radius, resolution)
        /\ c[1] < Trunc(center[1] + radius, resolution) + 1
        /\ c[2] >= Trunc(center[2] - radius, resolution)
        /\ c[2] < Trunc(center[2] + radius, resolution) + 1 }

_estimate_coverage_mut(center, radius, uncovered) ==
    Cardinality(loiter_box(center, radius, uncovered))

_estimate_coverage(center, radius, uncovered) ==
    Cardinality({ c \in loiter_box(center, radius, uncovered) :
                    DistLeq(cell_to_point(c), center, radius) })

\* the cells _mark_loiter_coverage removes from `uncovered` (newly_covered)
newly_covered_cells(center, radius, uncovered) ==
    { c \in loiter_box(center, radius, uncovered) :
        DistLeq(cell_to_point(c), center, radius) }

\* a _mark_loiter_coverage that leaves the map as it is
mark_cells_mut(g, cov, cells) == cov

\* the map's coverage grid after _mark_loiter_coverage: one
\* mark_covered(cell_center, resolution / 2, 1.0) call per newly covered cell
RECURSIVE mark_cells(_, _, _)
mark_cells(g, cov, cells) ==
    IF cells = {} THEN cov
    ELSE LET c == CHOOSE x \in cells : TRUE
         IN  mark_cells(g, mark_covered_grid(g, cov, cell_to_point(c), resolution \div 2, CovDen),
                        cells \ {c})

\* what _find_best_loiter computes for one candidate centre:
\* ok = valid position with coverage > 0; score = coverage / cost
evaluate(p, center) ==
    LET cov == _estimate_coverage(center, p.loiter_radius, p.uncovered)
    IN  [ center |-> center,
          ok |-> _is_valid_loiter_position(p, center) /\ cov > 0,
          coverage |-> cov,
          cost |-> distance_to(p.current_pos, center) + energy_cost(p.loiter_radius, p.cost10) ]

\* score(a) > score(b), both costs positive
ScoreGt(a, b) == a.coverage * b.cost > b.coverage * a.cost

\* The candidates are the grid sequence followed by list(uncovered)[:sample_size]:
\* the order in which a Python set is listed is unspecified, so the sampled
\* cells are any sample_size cells of `uncovered` in any order.  The loop keeps
\* the first candidate with the greatest score ("if score > best_score").
\* best_candidates is the set of results _find_best_loiter can return:
\*   - the first grid candidate of greatest grid score, when a sample exists
\*     none of whose cells scores strictly higher;
\*   - a sampled cell that scores strictly above every grid candidate, when a
\*     sample exists that holds it and no cell scoring strictly above it.
best_candidates(p) ==
    LET G == grid_candidates(p, p.uncovered)
        ge == [ i \in 1 .. Len(G) |-> evaluate(p, G[i]) ]
        se == [ c \in p.uncovered |-> evaluate(p, cell_to_point(c)) ]
        k == sample_size(p.uncovered)
        gok == { i \in 1 .. Len(G) : ge[i].ok }
        gbest == { i \in gok :
                     /\ \A j \in gok : ~ScoreGt(ge[j], ge[i])
                     /\ \A j \in gok : j < i => ScoreGt(ge[i], ge[j]) }
        NotAbove(c, e) == ~se[c].ok \/ ~ScoreGt(se[c], e)
        fromGrid == { ge[i] : i \in { j \in gbest :
                        Cardinality({ c \in p.uncovered : NotAbove(c, ge[j]) }) >= k } }
        fromSample == { se[c] : c \in { u \in p.uncovered :
                        /\ k > 0
                        /\ se[u].ok
                        /\ \A j \in gok : ScoreGt(se[u], ge[j])
                        /\ Cardinality({ v \in p.uncovered \ {u} : NotAbove(v, se[u]) })
                             >= k - 1 } }
    IN  fromGrid \cup fromSample

\* _find_best_loiter can return (None, -1.0): no grid candidate scores and a
\* sample exists in which no cell scores
best_can_be_none(p) ==
    LET G == grid_candidates(p, p.uncovered)
    IN  /\ \A i \in 1 .. Len(G) : ~evaluate(p, G[i]).ok
        /\ Cardinality({ c \in p.uncovered : ~evaluate(p, cell_to_point(c)).ok })
             >= sample_size(p.uncovered)

---------------------------------------------------------------------------
(* SpecPlan: CoveragePlanner.plan on a freshly built map *)

MaxLoiters == 3         \* largest max_loiters tried

PlanStartChoices == { Pt(1, 1), Pt(6, 5) }

PlanObstacleChoices ==
    { [center |-> Pt(3, 3), radius |-> 2 * Scale, is_no_fly |-> FALSE, is_soft |-> FALSE],
      [center |-> Pt(9, 7), radius |-> 1 * Scale, is_no_fly |-> TRUE, is_soft |-> FALSE],
      [center |-> Pt(11, 9), radius |-> 1 * Scale, is_no_fly |-> FALSE, is_soft |-> FALSE] }

\* obstacle lists of at most MaxObstacles obstacles
ObstacleLists ==
    UNION { [1 .. n -> PlanObstacleChoices] : n \in 0 .. MaxObstacles }

\* the kind grid after add_obstacle has been called for each obstacle in turn
RECURSIVE rasterize_all(_, _)
rasterize_all(g, obs) ==
    IF obs = <<>> THEN g
    ELSE rasterize_all(_rasterize_obstacle(g, Head(obs)), Tail(obs))

LoiterRadii == { 2 * Scale, 3 * Scale }
CoverageThresholds == { 0, 50, 95 }

\* a map is built either by add_obstacle calls (lac_sector, create_test_map),
\* which rasterize, or by passing obstacles= to the constructor (random_map),
\* which leaves the kind grid untouched
InitPlan ==
    /\ start_position \in PlanStartChoices
    /\ obstacles \in ObstacleLists
    /\ \E rasterized \in BOOLEAN :
          grid = IF rasterized
                 THEN rasterize_all(post_init_grid(start_position), obstacles)
                 ELSE post_init_grid(start_position)
    /\ coverage_grid = post_init_coverage
    /\ op = NoOp
    /\ ncalls = 0
    /\ energy = NoEnergy
    /\ landing = NoLanding
    /\ pathfinder = NoPathfinder
    /\ transition = NoTransition
    /\ geometry = NoGeometry
    /\ \E r \in LoiterRadii, m \in 1 .. MaxLoiters, t \in CoverageThresholds :
          planner = [ pc |-> "start",
                      loiter_radius |-> r, cost10 |-> STANDARD_COST, overlap10 |-> 3,
                      max_loiters |-> m, coverage_threshold |-> t,
                      loiters |-> <<>>, transitions |-> <<>>,
                      current_pos |-> start_position,
                      uncovered |-> {}, covered_cells |-> {},
                      total_free_cells |-> 0, iteration |-> 0 ]

\* plan(): lines 101-118, up to the loop
PlanStart ==
    /\ planner.pc = "start"
    /\ LET unc == get_uncovered_cells(grid, coverage_grid)
       IN  planner' = [planner EXCEPT
                         !.uncovered = unc,
                         !.total_free_cells = Cardinality(unc),
                         !.pc = IF Cardinality(unc) = 0 THEN "done" ELSE "loop"]
    /\ UNCHANGED <<start_position, grid, coverage_grid, obstacles, op, ncalls, energy, landing, pathfinder, transition, geometry>>

\* a transition that starts at the position given instead of the end
_plan_transition_mut(from_pos, to_pos) ==
    [from |-> to_pos, to |-> to_pos]

\* _plan_transition -> connect_loiters -> generate_dubins_path: the DubinsPath
\* built there has start = from_pos and end = to_pos (dubins.py 213-216)
_plan_transition(from_pos, to_pos) ==
    [from |-> from_pos, to |-> to_pos]

\* one loop iteration that finds a loiter: lines 119-152
PlanSelect ==
    /\ planner.pc = "loop"
    /\ planner.iteration < planner.max_loiters
    /\ \E best \in best_candidates(planner) :
          LET loiter == create_loiter(best.center, planner.loiter_radius, planner.current_pos)
              newly == newly_covered_cells(loiter.center, loiter.radius, planner.uncovered)
              covered == planner.covered_cells \cup newly
          IN  /\ planner' = [planner EXCEPT
                    !.iteration = @ + 1,
                    !.transitions = IF Len(planner.loiters) > 0
                                    THEN Append(@, _plan_transition(planner.current_pos,
                                                                    loiter.entry))
                                    ELSE @,
                    !.loiters = Append(@, loiter),
                    !.uncovered = @ \ newly,
                    !.covered_cells = covered,
                    !.current_pos = loiter.exit,
                    !.pc = IF 100 * Cardinality(covered)
                                >= planner.coverage_threshold * planner.total_free_cells
                           THEN "done" ELSE "loop"]
              /\ coverage_grid' = mark_cells(grid, coverage_grid, newly)
    /\ UNCHANGED <<start_position, grid, obstacles, op, ncalls, energy, landing, pathfinder, transition, geometry>>

\* one loop iteration in which _find_best_loiter returns None: lines 119-128
PlanBreak ==
    /\ planner.pc = "loop"
    /\ planner.iteration < planner.max_loiters
    /\ best_can_be_none(planner)
    /\ planner' = [planner EXCEPT !.iteration = @ + 1, !.pc = "done"]
    /\ UNCHANGED <<start_position, grid, coverage_grid, obstacles, op, ncalls, energy, landing, pathfinder, transition, geometry>>

\* the loop condition "iteration < self.max_loiters" fails: return mission
PlanExhausted ==
    /\ planner.pc = "loop"
    /\ planner.iteration >= planner.max_loiters
    /\ planner' = [planner EXCEPT !.pc = "done"]
    /\ UNCHANGED <<start_position, grid, coverage_grid, obstacles, op, ncalls, energy, landing, pathfinder, transition, geometry>>

NextPlan == PlanStart \/ PlanSelect \/ PlanBreak \/ PlanExhausted

SpecPlan == InitPlan /\ [][NextPlan]_vars

---------------------------------------------------------------------------
(* EnergyManager: energies in mWh, distances in mm, durations in 0.1 s,
   speeds in 0.1 m/s, powers in 0.1 W; arguments are whole metres and tenths
   of a revolution.  Divisions truncate toward zero, so a result keeps the
   sign the float computation gives it. *)

MaxPhases == 3          \* longest phase list explored

BATTERY_CAPACITY_WH == 370000       \* 370.0 Wh
CLIMB_POWER_FACTOR == 18            \* 1.8, in tenths
CLIMB_RATE_MS == 3                  \* 3.0 m/s
LOITER_POWER_PCT == 92              \* "power_draw_w * 0.92"
DESCENT_SPEED_PCT == 85             \* "cruise_speed_ms * 0.85"
DESCENT_POWER_PCT == 60             \* "power_draw_w * 0.6"
PiE4 == 31416                       \* math.pi * 10^4
RESERVE_FRACTION == 22              \* 0.22, in hundredths

\* Battery levels are Python floats.  A float keeps a fixed number of
\* significant bits (53 in the code, MantissaBits here) and every sum or
\* difference is rounded to the nearest value that fits, ties to even.
MantissaBits == 16

RECURSIVE Pow2(_)
Pow2(n) == IF n = 0 THEN 1 ELSE 2 * Pow2(n - 1)

\* spacing of the floats around the magnitude a >= 0
RECURSIVE Ulp(_, _)
Ulp(a, q) == IF a < Pow2(MantissaBits) * q THEN q ELSE Ulp(a, 2 * q)

\* the float nearest to x
fl(x) ==
    LET a == IF x >= 0 THEN x ELSE -x
        q == Ulp(a, 1)
        lo == (a \div q) * q
        r == a - lo
        up == IF 2 * r < q THEN lo
              ELSE IF 2 * r > q THEN lo + q
              ELSE IF (lo \div q) % 2 = 0 THEN lo ELSE lo + q
    IN  IF x >= 0 THEN up ELSE -up

\* compute_performance(altitude_m) at the altitudes explored (sea level or
\* below, where isa_at_altitude clamps, and 4000 m): the rounded cruise speed,
\* power draw and stall speed, and the descent per loop 3.0 + altitude / 2000,
\* which uses the altitude as given
compute_performance(altitude_m) ==
    IF altitude_m = 4000
    THEN [cruise_speed_ms |-> 232, power_draw_w |-> 1626, stall_speed_ms |-> 147,
          descent_rate_m_per_loop |-> 30 + altitude_m \div 200]
    ELSE [cruise_speed_ms |-> 190, power_draw_w |-> 1330, stall_speed_ms |-> 120,
          descent_rate_m_per_loop |-> 30 + altitude_m \div 200]

\* math.ceil(a / b), b > 0
ceil(a, b) == IF a >= 0 THEN CeilDiv(a, b) ELSE -((-a) \div b)

\* 2 * math.pi * radius, radius in metres, result in mm
circumference(radius) == Trunc(2 * PiE4 * radius, 10)

\* distance / speed: mm over 0.1 m/s, in 0.1 s
duration_of(distance, speed) == Trunc(distance, speed * 10)

\* power * duration / 3600: 0.1 W times 0.1 s, in mWh
energy_of(power, duration) == Trunc(power * duration, 360)

\* Point.distance_to between two map points, in mm
distance_mm(p, q) == (distance_to(p, q) * 1000) \div Scale

\* EnergyManager.__init__, with the EnergyBudget it builds (__post_init__)
EnergyManager(altitude_m, battery_wh) ==
    [ pc |-> "on",
      altitude_m |-> altitude_m,
      perf |-> compute_performance(altitude_m),
      battery_capacity_wh |-> battery_wh,
      reserve_wh |-> fl((battery_wh * RESERVE_FRACTION) \div 100),
      usable_wh |-> fl(battery_wh - fl((battery_wh * RESERVE_FRACTION) \div 100)),
      _current_wh |-> battery_wh,
      phases |-> <<>> ]

\* EnergyManager._consume
_consume(e, phase) ==
    [e EXCEPT
       !._current_wh = fl(@ - phase.energy_wh),
       !.phases = Append(@, [phase EXCEPT !.start_wh = e._current_wh,
                                          !.end_wh = fl(e._current_wh - phase.energy_wh)])]

PhaseEnergy(type, distance, duration, energy_wh) ==
    [ phase_type |-> type, distance_m |-> distance, duration_s |-> duration,
      energy_wh |-> energy_wh, start_wh |-> 0, end_wh |-> 0 ]

climb_phase(e, target_altitude_m) ==
    LET climb_height == Max(0, target_altitude_m)
        duration == (climb_height * 10) \div CLIMB_RATE_MS
        power == (e.perf.power_draw_w * CLIMB_POWER_FACTOR) \div 10
    IN  PhaseEnergy("climb", e.perf.cruise_speed_ms * duration * 10, duration,
                    energy_of(power, duration))

transit_phase(e, type, from_pos, to_pos) ==
    LET distance == distance_mm(from_pos, to_pos)
        duration == duration_of(distance, e.perf.cruise_speed_ms)
    IN  PhaseEnergy(type, distance, duration, energy_of(e.perf.power_draw_w, duration))

loiter_phase(e, radius, revolutions) ==
    LET distance == Trunc(circumference(radius) * revolutions, 10)
        duration == duration_of(distance, e.perf.cruise_speed_ms)
        loiter_power == (e.perf.power_draw_w * LOITER_POWER_PCT) \div 100
    IN  PhaseEnergy("loiter", distance, duration, energy_of(loiter_power, duration))

\* n_loops of add_descent
descent_loops(e, from_altitude_m) == ceil(from_altitude_m * 10, e.perf.descent_rate_m_per_loop)

descent_phase(e, from_altitude_m, loiter_radius) ==
    LET n_loops == descent_loops(e, from_altitude_m)
        distance == circumference(loiter_radius) * n_loops
        duration == Trunc(distance * 10, e.perf.cruise_speed_ms * DESCENT_SPEED_PCT)
        descent_power == (e.perf.power_draw_w * DESCENT_POWER_PCT) \div 100
    IN  PhaseEnergy("descent", distance, duration, energy_of(descent_power, duration))

\* EnergyBudget.total_energy_wh: sum(p.energy_wh for p in phases), left to right
RECURSIVE sum_energy(_, _)
sum_energy(phases, acc) ==
    IF phases = <<>> THEN acc
    ELSE sum_energy(Tail(phases), fl(acc + Head(phases).energy_wh))

total_energy_wh(e) == sum_energy(e.phases, 0)

\* EnergyBudget.remaining_wh
remaining_wh(e) == fl(e.battery_capacity_wh - total_energy_wh(e))

\* EnergyBudget.energy_by_type: the dict as the sequence of its items, a
\* type entering at 0.0 when first met and growing by each phase of the type
RECURSIVE energy_by_type_from(_, _)
energy_by_type_from(breakdown, phases) ==
    IF phases = <<>> THEN breakdown
    ELSE LET p == Head(phases)
             known == \E i \in 1 .. Len(breakdown) : breakdown[i].phase_type = p.phase_type
             started == IF known THEN breakdown
                        ELSE Append(breakdown, [phase_type |-> p.phase_type, energy_wh |-> 0])
         IN  energy_by_type_from(
                 [ i \in 1 .. Len(started) |->
                     IF started[i].phase_type = p.phase_type
                     THEN [started[i] EXCEPT !.energy_wh = fl(@ + p.energy_wh)]
                     ELSE started[i] ],
                 Tail(phases))

energy_by_type(e) == energy_by_type_from(<<>>, e.phases)

is_within_budget_mut(e) == remaining_wh(e) >= e.usable_wh

\* EnergyBudget.is_within_budget
is_within_budget(e) == remaining_wh(e) >= e.reserve_wh

\* EnergyManager.can_afford_loiter: the loiter's energy is computed as in add_loiter
can_afford_loiter(e, radius, revolutions) ==
    fl(e._current_wh - loiter_phase(e, radius, revolutions).energy_wh) >= e.reserve_wh

\* arguments tried; negative ones are accepted by the methods unchecked
Altitudes == { 0, 4000 }
BatteryChoices == { BATTERY_CAPACITY_WH, 5000 }
ClimbTargets == { -50, 150 }
TransitPairs == { <<Pt(1, 1), Pt(4, 5)>>, <<Pt(4, 5), Pt(4, 5)>> }
LoiterArgs == { <<50, 10>>, <<-50, 10>>, <<80, 5>> }
DescentArgs == { <<150, 50>>, <<-30, 50>>, <<150, -50>> }
RtbFrom == { Pt(4, 5) }
AffordArgs == { <<50, 10>>, <<25393, 10>> }

InitEnergy ==
    /\ start_position = Pt(1, 1)
    /\ grid = post_init_grid(start_position)
    /\ coverage_grid = post_init_coverage
    /\ obstacles = <<>>
    /\ op = NoOp
    /\ ncalls = 0
    /\ planner = NoPlanner
    /\ landing = NoLanding
    /\ pathfinder = NoPathfinder
    /\ transition = NoTransition
    /\ geometry = NoGeometry
    /\ \E a \in Altitudes, b \in BatteryChoices : energy = EnergyManager(a, b)

EnergyFrame == UNCHANGED <<start_position, grid, coverage_grid, obstacles, op, ncalls, planner, landing, pathfinder, transition, geometry>>

add_climb(target_altitude_m) ==
    /\ Len(energy.phases) < MaxPhases
    /\ energy' = _consume(energy, climb_phase(energy, target_altitude_m))
    /\ EnergyFrame

add_transit(from_pos, to_pos) ==
    /\ Len(energy.phases) < MaxPhases
    /\ energy' = _consume(energy, transit_phase(energy, "transit", from_pos, to_pos))
    /\ EnergyFrame

add_loiter(radius, revolutions) ==
    /\ Len(energy.phases) < MaxPhases
    /\ energy' = _consume(energy, loiter_phase(energy, radius, revolutions))
    /\ EnergyFrame

add_descent(from_altitude_m, loiter_radius) ==
    /\ Len(energy.phases) < MaxPhases
    /\ energy' = _consume(energy, descent_phase(energy, from_altitude_m, loiter_radius))
    /\ EnergyFrame

add_rtb(from_pos, home_pos) ==
    /\ Len(energy.phases) < MaxPhases
    /\ energy' = _consume(energy, transit_phase(energy, "rtb", from_pos, home_pos))
    /\ EnergyFrame

\* budget.is_within_budget(): a query, the manager is left as it is
is_within_budget_call ==
    /\ energy.pc = "on"
    /\ op' = [name |-> "is_within_budget", ret |-> is_within_budget(energy)]
    /\ UNCHANGED <<start_position, grid, coverage_grid, obstacles, ncalls, planner, energy, landing, pathfinder, transition, geometry>>

\* can_afford_loiter(radius, revolutions): a query, the manager is left as it is
can_afford_loiter_call(radius, revolutions) ==
    /\ energy.pc = "on"
    /\ op' = [name |-> "can_afford_loiter", radius |-> radius, revolutions |-> revolutions,
              ret |-> can_afford_loiter(energy, radius, revolutions)]
    /\ UNCHANGED <<start_position, grid, coverage_grid, obstacles, ncalls, planner, energy, landing, pathfinder, transition, geometry>>

AddClimbStep == \E t \in ClimbTargets : add_climb(t)
AddTransitStep == \E pr \in TransitPairs : add_transit(pr[1], pr[2])
AddLoiterStep == \E a \in LoiterArgs : add_loiter(a[1], a[2])
AddDescentStep == \E a \in DescentArgs : add_descent(a[1], a[2])
AddRtbStep == \E f \in RtbFrom : add_rtb(f, start_position)
CanAffordLoiterStep == \E a \in AffordArgs : can_afford_loiter_call(a[1], a[2])

NextEnergy ==
    \/ AddClimbStep \/ AddTransitStep \/ AddLoiterStep \/ AddDescentStep \/ AddRtbStep
    \/ is_within_budget_call \/ CanAffordLoiterStep

SpecEnergy == InitEnergy /\ [][NextEnergy]_vars

---------------------------------------------------------------------------
(* compute_descent_plan (src/src/planners/landing.py): altitudes in mm,
   positions in fixed-point map units, speeds in mm/s *)

FLARE_ALTITUDE_M == 3000            \* 3.0 m
APPROACH_ALTITUDE_M == 15000        \* 15.0 m
STALL_MARGIN == 13                  \* 1.3, in tenths
BANK_ANGLE_DEG == 35
MAX_TERRAIN_SLOPE_DEG == 8
LOOP_LIMIT == 50                    \* "if loop > 50: break"
APPROACH_STEPS == 12
FLARE_STEPS == 6

\* 1000 * (cos, sin) of i * 2 pi / n for n = 4 and n = 8
CosSin(i, n) ==
    LET k == (i * 8) \div n
    IN  CASE k = 0 -> <<1000, 0>>
          [] k = 1 -> <<707, 707>>
          [] k = 2 -> <<0, 1000>>
          [] k = 3 -> <<-707, 707>>
          [] k = 4 -> <<-1000, 0>>
          [] k = 5 -> <<-707, -707>>
          [] k = 6 -> <<0, -1000>>
          [] OTHER -> <<707, -707>>

DescentWaypoint(x, y, altitude_m, speed_ms, bank_deg, phase, loop_number) ==
    [ x |-> x, y |-> y, altitude_m |-> altitude_m, speed_ms |-> speed_ms,
      bank_deg |-> bank_deg, phase |-> phase, loop_number |-> loop_number ]

\* the state of compute_descent_plan before its spiral loop (lines 106-125)
descent_start(center, radius_m, start_altitude_m, terrain_altitude_m, terrain_slope_deg, wpl) ==
    LET perf == compute_performance(terrain_altitude_m)
        rate == perf.descent_rate_m_per_loop * 100
    IN  [ pc |-> "spiral",
          center |-> center, radius_m |-> radius_m,
          start_altitude_m |-> start_altitude_m,
          terrain_elevation_m |-> terrain_altitude_m,
          terrain_slope_deg |-> terrain_slope_deg,
          waypoints_per_loop |-> wpl,
          approach_speed |-> perf.stall_speed_ms * 10 * STALL_MARGIN,
          descent_rate |-> IF terrain_slope_deg > MAX_TERRAIN_SLOPE_DEG
                           THEN (rate * 6) \div 10 ELSE rate,
          current_alt |-> start_altitude_m,
          loop |-> 0,
          total_dist |-> 0,
          approach_heading |-> <<1000, 0>>,
          waypoints |-> <<>>,
          n_loops |-> 0,
          total_distance_m |-> 0 ]

\* the waypoints one pass of the spiral loop appends (lines 130-146)
spiral_waypoints(l) ==
    [ j \in 1 .. l.waypoints_per_loop |->
        LET cs == CosSin(j - 1, l.waypoints_per_loop)
            alt == l.current_alt - Trunc(l.descent_rate * (j - 1), l.waypoints_per_loop)
        IN  DescentWaypoint(l.center[1] + Trunc(l.radius_m * cs[1], 1000),
                            l.center[2] + Trunc(l.radius_m * cs[2], 1000),
                            Max(alt, APPROACH_ALTITUDE_M), l.approach_speed,
                            BANK_ANGLE_DEG, "spiral", l.loop + 1) ]

\* 1000 * (cos, sin) of atan2(last.y - center.y, last.x - center.x), 0 when
\* there is no waypoint (lines 158-161)
approach_heading(l) ==
    IF l.waypoints = <<>> THEN <<1000, 0>>
    ELSE LET last == l.waypoints[Len(l.waypoints)]
         IN  heading_offset(l.center, <<last.x, last.y>>, 1000)

\* the approach loop (lines 165-179): each point is placed from the last
\* waypoint of the list as it is when the point is computed, so the i-th
\* point lies at the sum of the first i steps from where the loop started
approach_dist(l, i) == (((l.radius_m * 8) \div 10) * i) \div APPROACH_STEPS

RECURSIVE approach_offset(_, _, _, _)
approach_offset(l, h, c, i) ==
    IF i = 0 THEN 0
    ELSE Trunc(approach_dist(l, i) * h[c], 1000) + approach_offset(l, h, c, i - 1)

approach_waypoints(l, h) ==
    LET base == IF l.waypoints = <<>> THEN l.center
                ELSE <<l.waypoints[Len(l.waypoints)].x, l.waypoints[Len(l.waypoints)].y>>
    IN  [ j \in 1 .. APPROACH_STEPS |->
            DescentWaypoint(
                base[1] + approach_offset(l, h, 1, j - 1),
                base[2] + approach_offset(l, h, 2, j - 1),
                APPROACH_ALTITUDE_M
                  - ((APPROACH_ALTITUDE_M - FLARE_ALTITUDE_M) * (j - 1)) \div APPROACH_STEPS,
                (l.approach_speed * (100 * APPROACH_STEPS - 15 * (j - 1)))
                   \div (100 * APPROACH_STEPS),
                0, "approach", l.loop) ]

\* a flare loop that leaves out its first point
flare_waypoints_mut(l, h) ==
    LET last_wp == l.waypoints[Len(l.waypoints)]
    IN  [ j \in 1 .. FLARE_STEPS - 1 |->
            LET dist == (((l.radius_m * 3) \div 10) * j) \div FLARE_STEPS
                alt == (FLARE_ALTITUDE_M * (FLARE_STEPS - j)) \div FLARE_STEPS
            IN  DescentWaypoint(last_wp.x + Trunc(dist * h[1], 1000),
                                last_wp.y + Trunc(dist * h[2], 1000),
                                Max(alt, 0), (l.approach_speed * 75) \div 100,
                                0, "flare", l.loop) ]

\* the flare loop (lines 185-202): every point is placed from last_wp
flare_waypoints(l, h) ==
    LET last_wp == l.waypoints[Len(l.waypoints)]
    IN  [ j \in 1 .. FLARE_STEPS |->
            LET dist == (((l.radius_m * 3) \div 10) * (j - 1)) \div FLARE_STEPS
                alt == (FLARE_ALTITUDE_M * (FLARE_STEPS - (j - 1))) \div FLARE_STEPS
            IN  DescentWaypoint(last_wp.x + Trunc(dist * h[1], 1000),
                                last_wp.y + Trunc(dist * h[2], 1000),
                                Max(alt, 0), (l.approach_speed * 75) \div 100,
                                0, "flare", l.loop) ]

touchdown_waypoint_mut(l) ==
    LET last == l.waypoints[Len(l.waypoints)]
    IN  DescentWaypoint(last.x, last.y, last.altitude_m, last.speed_ms, 0, "touchdown", l.loop)

\* the touchdown waypoint (lines 208-216)
touchdown_waypoint(l) ==
    LET last == l.waypoints[Len(l.waypoints)]
    IN  DescentWaypoint(last.x, last.y, 0, 0, 0, "touchdown", l.loop)

\* arguments tried
LandingCenters == { Pt(6, 5) }
LandingRadii == { 2 * Scale, 3 * Scale }
StartAltitudes == { 0, 10000, 15000, 16000, 40000, 150000, 200000 }
TerrainAltitudes == { 0, 4000, -6000 }
TerrainSlopes == { 0, 10 }
WaypointsPerLoop == { 4, 8 }

InitLanding ==
    /\ start_position = Pt(1, 1)
    /\ grid = post_init_grid(start_position)
    /\ coverage_grid = post_init_coverage
    /\ obstacles = <<>>
    /\ op = NoOp
    /\ ncalls = 0
    /\ planner = NoPlanner
    /\ energy = NoEnergy
    /\ pathfinder = NoPathfinder
    /\ transition = NoTransition
    /\ geometry = NoGeometry
    /\ \E c \in LandingCenters, r \in LandingRadii, h \in StartAltitudes,
          t \in TerrainAltitudes, s \in TerrainSlopes, n \in WaypointsPerLoop :
          landing = descent_start(c, r, h, t, s, n)

LandingFrame ==
    UNCHANGED <<start_position, grid, coverage_grid, obstacles, op, ncalls, planner, energy,
                pathfinder, transition, geometry>>

\* one pass of "while current_alt > APPROACH_ALTITUDE_M" (lines 128-155)
SpiralLoop ==
    /\ landing.pc = "spiral"
    /\ landing.current_alt > APPROACH_ALTITUDE_M
    /\ landing' = [landing EXCEPT
          !.loop = @ + 1,
          !.waypoints = @ \o spiral_waypoints(landing),
          !.total_dist = @ + Trunc(2 * PiE4 * landing.radius_m, 10000),
          !.current_alt = @ - landing.descent_rate,
          !.pc = IF landing.loop + 1 > LOOP_LIMIT THEN "approach" ELSE "spiral"]
    /\ LandingFrame

\* the loop condition fails
SpiralExit ==
    /\ landing.pc = "spiral"
    /\ landing.current_alt <= APPROACH_ALTITUDE_M
    /\ landing' = [landing EXCEPT !.pc = "approach"]
    /\ LandingFrame

\* phase 2, lines 157-182
Approach ==
    /\ landing.pc = "approach"
    /\ LET h == approach_heading(landing)
       IN  landing' = [landing EXCEPT
              !.approach_heading = h,
              !.waypoints = @ \o approach_waypoints(landing, h),
              !.total_dist = @ + (landing.radius_m * 8) \div 10,
              !.pc = "flare"]
    /\ LandingFrame

\* phase 3, lines 184-205
Flare ==
    /\ landing.pc = "flare"
    /\ landing' = [landing EXCEPT
          !.waypoints = @ \o flare_waypoints(landing, landing.approach_heading),
          !.total_dist = @ + (landing.radius_m * 3) \div 10,
          !.pc = "touchdown"]
    /\ LandingFrame

\* touchdown and the plan's totals, lines 207-226
Touchdown ==
    /\ landing.pc = "touchdown"
    /\ landing' = [landing EXCEPT
          !.waypoints = Append(@, touchdown_waypoint(landing)),
          !.n_loops = landing.loop,
          !.total_distance_m = landing.total_dist,
          !.pc = "done"]
    /\ LandingFrame

NextLanding == SpiralLoop \/ SpiralExit \/ Approach \/ Flare \/ Touchdown

SpecLanding == InitLanding /\ [][NextLanding]_vars

\* the function runs to its return: no step of it is put off for ever
SpecLandingRuns == SpecLanding /\ WF_vars(NextLanding)

---------------------------------------------------------------------------
(* AStarPathfinder (src/src/planners/pathfinder.py)                        *)
(* Cells are <<x, y>>; costs are in millionths of a cell, the resolution   *)
(* at which sums of 1.0, 1.414 and square roots of whole numbers keep the  *)
(* order their floats have.                                                *)

CostUnit == 1000000
DiagonalCost == 1414000                 \* "move_cost = 1.414"
max_iterations == 50000

NoCell == <<-1, -1>>                    \* None (no parent, nothing found)

\* AStarPathfinder._create_blocked_grid: the cells within safety_cells (in
\* both axes) of an OBSTACLE, NO_FLY or SOFT_NO_FLY cell
_create_blocked_grid(g, safety_cells) ==
    { c \in Cells :
        \E b \in Cells :
            /\ g[b] \in {OBSTACLE, NO_FLY, SOFT_NO_FLY}
            /\ c[1] - b[1] \in -safety_cells .. safety_cells
            /\ c[2] - b[2] \in -safety_cells .. safety_cells }

\* "max(0, min(grid_width - 1, x))" on both coordinates
clamp_cell(cell) ==
    <<Max(0, Min(grid_width - 1, cell[1])), Max(0, Min(grid_height - 1, cell[2]))>>

\* math.sqrt(n) in millionths, n a whole number
SqrtE6(n) ==
    IF n = 0 THEN 0
    ELSE LET s == ISqrt(n * 1000000)
         IN  s * 1000 + ((n * 1000000 - s * s) * 500) \div s

\* PathNode.f_cost and PathNode.__lt__, nodes named by their cell
f_cost(node_map, c) == node_map[c].g_cost + node_map[c].h_cost
node_lt(node_map, a, b) == f_cost(node_map, a) < f_cost(node_map, b)

\* heapq._siftdown(heap, startpos, pos), positions counted from 0
RECURSIVE _siftdown(_, _, _, _, _)
_siftdown(heap, node_map, startpos, pos, newitem) ==
    IF pos > startpos /\ node_lt(node_map, newitem, heap[((pos - 1) \div 2) + 1])
    THEN _siftdown([heap EXCEPT ![pos + 1] = heap[((pos - 1) \div 2) + 1]],
                   node_map, startpos, (pos - 1) \div 2, newitem)
    ELSE [heap EXCEPT ![pos + 1] = newitem]

\* heapq._siftup(heap, pos): the smaller child moves up until a leaf is
\* reached, then the item is sifted down from there
RECURSIVE _siftup_leaf(_, _, _, _, _)
_siftup_leaf(heap, node_map, startpos, pos, newitem) ==
    LET childpos == 2 * pos + 1
        rightpos == childpos + 1
        endpos == Len(heap)
        smaller == IF rightpos < endpos /\ ~node_lt(node_map, heap[childpos + 1], heap[rightpos + 1])
                   THEN rightpos ELSE childpos
    IN  IF childpos < endpos
        THEN _siftup_leaf([heap EXCEPT ![pos + 1] = heap[smaller + 1]],
                          node_map, startpos, smaller, newitem)
        ELSE _siftdown([heap EXCEPT ![pos + 1] = newitem], node_map, startpos, pos, newitem)

\* heapq.heappush
heappush(heap, node_map, item) ==
    _siftdown(Append(heap, item), node_map, 0, Len(heap), item)

\* heapq.heappop: <<the item returned, the heap left>>
heappop(heap, node_map) ==
    LET lastelt == heap[Len(heap)]
        rest == SubSeq(heap, 1, Len(heap) - 1)
    IN  IF rest = <<>> THEN <<lastelt, rest>>
        ELSE <<heap[1], _siftup_leaf([rest EXCEPT ![1] = lastelt], node_map, 0, 0, lastelt)>>

\* 8-directional
directions ==
    << <<0, 1>>, <<1, 0>>, <<0, -1>>, <<-1, 0>>,
       <<1, 1>>, <<1, -1>>, <<-1, 1>>, <<-1, -1>> >>

\* the body of the loop without its "if self.blocked[ny, nx]: continue"
visit_neighbour_mut(a, blocked, closed_set, goal, current, d) ==
    LET n == <<current[1] + d[1], current[2] + d[2]>>
        move_cost == IF d[1] # 0 /\ d[2] # 0 THEN DiagonalCost ELSE CostUnit
        g_cost == a.node_map[current].g_cost + move_cost
        h_cost == SqrtE6((n[1] - goal[1]) * (n[1] - goal[1]) + (n[2] - goal[2]) * (n[2] - goal[2]))
        new_map == [ c \in DOMAIN a.node_map \cup {n} |->
                       IF c = n THEN [g_cost |-> g_cost, h_cost |-> h_cost, parent |-> current]
                       ELSE a.node_map[c] ]
    IN  IF ~_is_valid_cell(n) \/ n \in closed_set THEN a
        ELSE IF n \in DOMAIN a.node_map
        THEN IF g_cost < a.node_map[n].g_cost
             THEN [a EXCEPT !.node_map[n].g_cost = g_cost, !.node_map[n].parent = current]
             ELSE a
        ELSE CHOOSE r \in { [open_set |-> heappush(a.open_set, m, n), node_map |-> m] :
                             m \in {new_map} } : TRUE

\* the body of "for dx, dy in directions" for one direction (lines 170-192);
\* a is [open_set, node_map], the search state the body updates
visit_neighbour(a, blocked, closed_set, goal, current, d) ==
    LET n == <<current[1] + d[1], current[2] + d[2]>>
        move_cost == IF d[1] # 0 /\ d[2] # 0 THEN DiagonalCost ELSE CostUnit
        g_cost == a.node_map[current].g_cost + move_cost
        h_cost == SqrtE6((n[1] - goal[1]) * (n[1] - goal[1]) + (n[2] - goal[2]) * (n[2] - goal[2]))
        new_map == [ c \in DOMAIN a.node_map \cup {n} |->
                       IF c = n THEN [g_cost |-> g_cost, h_cost |-> h_cost, parent |-> current]
                       ELSE a.node_map[c] ]
    IN  IF ~_is_valid_cell(n) \/ n \in blocked \/ n \in closed_set THEN a
        ELSE IF n \in DOMAIN a.node_map
        THEN IF g_cost < a.node_map[n].g_cost
             THEN [a EXCEPT !.node_map[n].g_cost = g_cost, !.node_map[n].parent = current]
             ELSE a
        ELSE CHOOSE r \in { [open_set |-> heappush(a.open_set, m, n), node_map |-> m] :
                             m \in {new_map} } : TRUE

\* the whole "for dx, dy in directions" loop, from direction i on; each
\* direction works on the value the one before it left (v is that value)
RECURSIVE visit_neighbours(_, _, _, _, _, _)
visit_neighbours(a, blocked, closed_set, goal, current, i) ==
    IF i > Len(directions) THEN a
    ELSE CHOOSE r \in { visit_neighbours(visit_neighbour(v, blocked, closed_set, goal, current,
                                                         directions[i]),
                                         blocked, closed_set, goal, current, i + 1) : v \in {a} } : TRUE

\* "while node: path.append((node.x, node.y)); node = node.parent", reversed
RECURSIVE reconstruct(_, _)
reconstruct(node_map, c) ==
    IF c = NoCell THEN <<>>
    ELSE Append(reconstruct(node_map, node_map[c].parent), c)

\* AStarPathfinder._line_clear: the cells sampled are int(p1 + (i / steps) * d)
Abs(x) == IF x >= 0 THEN x ELSE -x

_line_clear(blocked, p1, p2) ==
    LET dx == p2[1] - p1[1]
        dy == p2[2] - p1[2]
        steps == Max(Max(Abs(dx), Abs(dy)), 1)
    IN  \A i \in 0 .. steps :
            LET c == <<Trunc(p1[1] * steps + i * dx, steps), Trunc(p1[2] * steps + i * dy, steps)>>
            IN  _is_valid_cell(c) => c \notin blocked

\* the "for j in range(len(path) - 1, i, -1)" search of _simplify_path: the
\* last position j > i whose cell is in line of sight of path[i], 0 if none
\* (positions counted from 1)
last_clear(blocked, path, i) ==
    LET clear == { j \in i + 1 .. Len(path) : _line_clear(blocked, path[i], path[j]) }
    IN  IF clear = {} THEN 0 ELSE CHOOSE j \in clear : \A k \in clear : k <= j

\* the while loop of _simplify_path (lines 204-213); j is the position found
RECURSIVE simplify_from(_, _, _, _)
simplify_from(blocked, path, i, simplified) ==
    IF i >= Len(path) THEN simplified
    ELSE CHOOSE r \in
           { IF j # 0 THEN simplify_from(blocked, path, j, Append(simplified, path[j]))
             ELSE simplify_from(blocked, path, i + 1, Append(simplified, path[i + 1])) :
             j \in { last_clear(blocked, path, i) } } : TRUE

\* AStarPathfinder._simplify_path
_simplify_path(blocked, path) ==
    IF Len(path) <= 2 THEN path
    ELSE simplify_from(blocked, path, 1, <<path[1]>>)

\* "path = [start]; for cell in simplified: path.append(cell_to_point(cell));
\* path.append(goal)" (lines 101-104)
world_path(start, simplified, goal) ==
    <<start>> \o [ k \in 1 .. Len(simplified) |-> cell_to_point(simplified[k]) ] \o <<goal>>

\* the maps, safety margins and end points tried
PathObstacleChoices ==
    { <<>>,
      << [center |-> Pt(5, 5), radius |-> 2 * Scale, is_no_fly |-> TRUE, is_soft |-> FALSE] >>,
      << [center |-> Pt(7, 3), radius |-> 1 * Scale, is_no_fly |-> FALSE, is_soft |-> FALSE] >> }
SafetyCellsChoices == { 0, 1, 5 }
PathStarts == { Pt(1, 1), Pt(7, 3) }
PathGoals == { Pt(11, 9), Pt(1, 9), Pt(13, 3) }

\* cells _find_nearest_free may visit when no cell is free (the search is
\* followed that far; a search that has a free cell to find is followed to it)
MaxVisited == 40

\* AStarPathfinder.__init__ and the arguments of one find_path call
InitPath ==
    /\ start_position = Pt(1, 1)
    /\ \E obs \in PathObstacleChoices :
          /\ obstacles = obs
          /\ grid = rasterize_all(post_init_grid(start_position), obs)
    /\ coverage_grid = post_init_coverage
    /\ op = NoOp
    /\ ncalls = 0
    /\ planner = NoPlanner
    /\ energy = NoEnergy
    /\ landing = NoLanding
    /\ transition = NoTransition
    /\ geometry = NoGeometry
    /\ \E s \in SafetyCellsChoices, start \in PathStarts, goal \in PathGoals :
          pathfinder = [ pc |-> "find_path",
                         safety_cells |-> s,
                         blocked |-> _create_blocked_grid(grid, s),
                         start |-> start, goal |-> goal,
                         start_cell |-> NoCell, goal_cell |-> NoCell,
                         queue |-> <<>>, visited |-> {},
                         open_set |-> <<>>, closed_set |-> {}, node_map |-> <<>>,
                         iteration |-> 0,
                         path_cells |-> <<>>, path |-> <<>> ]

PathFrame ==
    UNCHANGED <<start_position, grid, coverage_grid, obstacles, op, ncalls, planner, energy,
                landing, transition, geometry>>

\* the state in which _astar starts (lines 139-152)
astar_begin(p, start_cell, goal_cell) ==
    [p EXCEPT !.pc = "astar",
              !.start_cell = start_cell, !.goal_cell = goal_cell,
              !.queue = <<>>, !.visited = {},
              !.open_set = <<start_cell>>, !.closed_set = {},
              !.node_map = [ c \in {start_cell} |->
                               [g_cost |-> 0, h_cost |-> 0, parent |-> NoCell] ],
              !.iteration = 0]

\* where find_path goes once start_cell is settled (lines 84-92)
after_start(p, start_cell, goal_cell) ==
    IF goal_cell \in p.blocked
    THEN [p EXCEPT !.pc = "nearest_goal", !.start_cell = start_cell, !.goal_cell = goal_cell,
                   !.queue = <<goal_cell>>, !.visited = {}]
    ELSE astar_begin(p, start_cell, goal_cell)

\* find_path up to its first search (lines 68-83)
FindPath ==
    /\ pathfinder.pc = "find_path"
    /\ LET start_cell == clamp_cell(point_to_cell(pathfinder.start))
           goal_cell == clamp_cell(point_to_cell(pathfinder.goal))
       IN  pathfinder' =
             IF start_cell \in pathfinder.blocked
             THEN [pathfinder EXCEPT !.pc = "nearest_start",
                                     !.start_cell = start_cell, !.goal_cell = goal_cell,
                                     !.queue = <<start_cell>>, !.visited = {}]
             ELSE after_start(pathfinder, start_cell, goal_cell)
    /\ PathFrame

\* the neighbours one pass of _find_nearest_free appends (lines 126-129)
unvisited_neighbours(c, visited) ==
    SelectSeq(<< <<c[1], c[2] + 1>>, <<c[1] + 1, c[2]>>, <<c[1], c[2] - 1>>, <<c[1] - 1, c[2]>> >>,
              LAMBDA n : n \notin visited)

\* one pass of "while queue" in _find_nearest_free (lines 115-129): cells
\* outside the grid are visited and expanded like the others, so the queue
\* never empties and the search ends only by returning a free cell
FindNearestFree ==
    /\ pathfinder.pc \in {"nearest_start", "nearest_goal"}
    /\ pathfinder.queue # <<>>
    /\ Cells \subseteq pathfinder.blocked => Cardinality(pathfinder.visited) < MaxVisited
    /\ LET c == Head(pathfinder.queue)
           queue == Tail(pathfinder.queue)
           visited == pathfinder.visited \cup {c}
       IN  pathfinder' =
             IF c \in pathfinder.visited
             THEN [pathfinder EXCEPT !.queue = queue]
             ELSE IF _is_valid_cell(c) /\ c \notin pathfinder.blocked
             THEN IF pathfinder.pc = "nearest_start"
                  THEN after_start(pathfinder, c, pathfinder.goal_cell)
                  ELSE astar_begin(pathfinder, pathfinder.start_cell, c)
             ELSE [pathfinder EXCEPT !.queue = queue \o unvisited_neighbours(c, visited),
                                     !.visited = visited]
    /\ PathFrame

\* one pass of the while loop of _astar (lines 154-192)
AStarIteration ==
    /\ pathfinder.pc = "astar"
    /\ pathfinder.open_set # <<>>
    /\ pathfinder.iteration < max_iterations
    /\ \E popped \in { heappop(pathfinder.open_set, pathfinder.node_map) } :
       \E current \in { popped[1] } :
       \E closed_set \in { pathfinder.closed_set \cup {current} } :
          IF current = pathfinder.goal_cell
          THEN pathfinder' = [pathfinder EXCEPT
                  !.pc = "found",
                  !.iteration = @ + 1,
                  !.open_set = popped[2],
                  !.path_cells = reconstruct(pathfinder.node_map, current)]
          ELSE \E a \in { visit_neighbours([open_set |-> popped[2],
                                            node_map |-> pathfinder.node_map],
                                           pathfinder.blocked, closed_set,
                                           pathfinder.goal_cell, current, 1) } :
                  pathfinder' = [pathfinder EXCEPT
                      !.iteration = @ + 1,
                      !.open_set = a.open_set,
                      !.node_map = a.node_map,
                      !.closed_set = closed_set]
    /\ PathFrame

\* _astar returns [] and find_path the pair (lines 194, 94-95)
NoPathFound ==
    /\ pathfinder.pc = "astar"
    /\ pathfinder.open_set = <<>> \/ pathfinder.iteration >= max_iterations
    /\ pathfinder' = [pathfinder EXCEPT !.pc = "done",
                                        !.path = <<pathfinder.start, pathfinder.goal>>]
    /\ PathFrame

\* the path found is simplified and converted (lines 97-106)
ReturnPath ==
    /\ pathfinder.pc = "found"
    /\ pathfinder' = [pathfinder EXCEPT
          !.pc = "done",
          !.path = world_path(pathfinder.start,
                              _simplify_path(pathfinder.blocked, pathfinder.path_cells),
                              pathfinder.goal)]
    /\ PathFrame

NextPath == FindPath \/ FindNearestFree \/ AStarIteration \/ NoPathFound \/ ReturnPath

SpecPath == InitPath /\ [][NextPath]_vars

\* the call runs on as long as it has a step to take
SpecPathRuns == SpecPath /\ WF_vars(NextPath)

---------------------------------------------------------------------------
(* TransitionPlanner (src/src/planners/transition.py)                      *)
(* Headings are whole eighths of a turn (k stands for k * pi / 4), so the  *)
(* offsets pi/4, -pi/4, pi/2, -pi/2 are exact.  The curve of a Dubins path  *)
(* between its end points is not computed here: its waypoint list is the   *)
(* start, some points in between, and the end (DubinsPath._generate_       *)
(* waypoints), and the points in between are an input of the call.         *)

EighthTurns == 8

\* Loiter with the default revolutions = 0.5, exit_heading = 0.0
Loiter(center, radius, entry_heading) ==
    [ center |-> center, radius |-> radius,
      entry_heading |-> entry_heading, exit_heading |-> 0 ]

\* center + radius * (cos, sin) of a heading
point_at(center, radius, heading) ==
    LET cs == CosSin(heading % EighthTurns, EighthTurns)
    IN  <<center[1] + Trunc(radius * cs[1], 1000), center[2] + Trunc(radius * cs[2], 1000)>>

\* Loiter.get_entry_point
get_entry_point(l) == point_at(l.center, l.radius, l.entry_heading)

\* Loiter.get_exit_point: exit_angle = entry_heading + 2 pi * 0.5
get_exit_point(l) == point_at(l.center, l.radius, l.entry_heading + EighthTurns \div 2)

NoPath == [path_type |-> "None"]

\* generate_dubins_path: LSL and RSR exist for every pair of poses, so a
\* path is returned; between is what _generate_waypoints puts between the ends
generate_dubins_path(start, start_heading, end, end_heading, between) ==
    [ path_type |-> "dubins",
      start |-> start, end |-> end,
      start_heading |-> start_heading % EighthTurns,
      end_heading |-> end_heading % EighthTurns,
      waypoints |-> <<start>> \o between \o <<end>> ]

\* TransitionPlanner._validate_path
_validate_path_mut(has_map, g, path) == TRUE

_validate_path(has_map, g, path) ==
    IF ~has_map THEN TRUE
    ELSE \A k \in 1 .. Len(path.waypoints) : is_point_safe(g, path.waypoints[k], FALSE)

\* "[0, math.pi/4, -math.pi/4, math.pi/2, -math.pi/2]"
angle_offsets == <<0, 1, -1, 2, -2>>

\* the path _find_safe_transition tries for the k-th offset (lines 97-111)
adjusted_path(t, k) ==
    LET adjusted_entry_heading == t.to_loiter.entry_heading + angle_offsets[k] + EighthTurns
    IN  generate_dubins_path(get_exit_point(t.from_loiter), t.from_loiter.exit_heading,
                             point_at(t.to_loiter.center, t.to_loiter.radius,
                                      adjusted_entry_heading),
                             adjusted_entry_heading, t.between[k])

\* the position in `remaining` of the loiter optimize_loiter_sequence takes
\* next: the first one at the least distance ("if dist < best_dist")
best_idx_mut(loiters, remaining, exit_point) ==
    CHOOSE i \in 1 .. Len(remaining) :
        \A j \in 1 .. Len(remaining) :
            \/ DistSq(exit_point, loiters[remaining[i]].center)
                  < DistSq(exit_point, loiters[remaining[j]].center)
            \/ /\ DistSq(exit_point, loiters[remaining[i]].center)
                    = DistSq(exit_point, loiters[remaining[j]].center)
               /\ i >= j

best_idx(loiters, remaining, exit_point) ==
    CHOOSE i \in 1 .. Len(remaining) :
        \A j \in 1 .. Len(remaining) :
            \/ DistSq(exit_point, loiters[remaining[i]].center)
                  < DistSq(exit_point, loiters[remaining[j]].center)
            \/ /\ DistSq(exit_point, loiters[remaining[i]].center)
                    = DistSq(exit_point, loiters[remaining[j]].center)
               /\ i <= j

\* list.pop(i)
pop_at(s, i) == SubSeq(s, 1, i - 1) \o SubSeq(s, i + 1, Len(s))

\* the loiters, maps and in-between points tried
MaxSequence == 4        \* loiters passed to optimize_loiter_sequence

TransLoiters ==
    { Loiter(Pt(3, 5), 2 * Scale, 0), Loiter(Pt(1, 9), 2 * Scale, 0),
      Loiter(Pt(5, 5), 2 * Scale, 4), Loiter(Pt(9, 5), 2 * Scale, 0) }
TransObstacleChoices ==
    { <<>>,
      << [center |-> Pt(7, 5), radius |-> 1 * Scale, is_no_fly |-> FALSE, is_soft |-> FALSE] >> }
BetweenChoices == { <<>>, << Pt(6, 5), Pt(7, 5) >> }

LoiterLists == UNION { [1 .. n -> TransLoiters] : n \in 0 .. MaxSequence }

InitTransition ==
    /\ start_position = Pt(1, 1)
    /\ \E obs \in TransObstacleChoices :
          /\ obstacles = obs
          /\ grid = rasterize_all(post_init_grid(start_position), obs)
    /\ coverage_grid = post_init_coverage
    /\ op = NoOp
    /\ ncalls = 0
    /\ planner = NoPlanner
    /\ energy = NoEnergy
    /\ landing = NoLanding
    /\ pathfinder = NoPathfinder
    /\ geometry = NoGeometry
    /\ \/ \E from \in TransLoiters, to \in TransLoiters, m \in BOOLEAN,
             b \in [1 .. Len(angle_offsets) -> BetweenChoices] :
             transition = [ pc |-> "plan_transition", call |-> "plan_transition",
                            has_map |-> m,
                            from_loiter |-> from, to_loiter |-> to, between |-> b,
                            attempt |-> 0, path |-> NoPath,
                            loiters |-> <<>>, optimized |-> <<>>, remaining |-> <<>> ]
       \/ \E ls \in LoiterLists :
             /\ obstacles = <<>>
             /\ transition = [ pc |-> "optimize_loiter_sequence",
                               call |-> "optimize_loiter_sequence", has_map |-> FALSE,
                               from_loiter |-> Loiter(Pt(3, 5), 2 * Scale, 0),
                               to_loiter |-> Loiter(Pt(3, 5), 2 * Scale, 0),
                               between |-> [k \in 1 .. Len(angle_offsets) |-> <<>>],
                               attempt |-> 0, path |-> NoPath,
                               loiters |-> ls, optimized |-> <<>>, remaining |-> <<>> ]

TransitionFrame ==
    UNCHANGED <<start_position, grid, coverage_grid, obstacles, op, ncalls, planner, energy,
                landing, pathfinder, geometry>>

\* plan_transition (lines 36-56), up to the call of _find_safe_transition
PlanTransition ==
    /\ transition.pc = "plan_transition"
    /\ LET path == generate_dubins_path(
                       get_exit_point(transition.from_loiter),
                       transition.from_loiter.exit_heading,
                       get_entry_point(transition.to_loiter),
                       transition.to_loiter.entry_heading,
                       transition.between[1])
       IN  transition' =
             IF transition.has_map /\ ~_validate_path(transition.has_map, grid, path)
             THEN [transition EXCEPT !.pc = "_find_safe_transition", !.attempt = 1]
             ELSE [transition EXCEPT !.pc = "done", !.path = path]
    /\ TransitionFrame

\* one pass of the loop of _find_safe_transition (lines 96-114)
FindSafeTransition ==
    /\ transition.pc = "_find_safe_transition"
    /\ transition.attempt <= Len(angle_offsets)
    /\ LET path == adjusted_path(transition, transition.attempt)
       IN  transition' =
             IF _validate_path(transition.has_map, grid, path)
             THEN [transition EXCEPT !.pc = "done", !.path = path]
             ELSE [transition EXCEPT !.attempt = @ + 1]
    /\ TransitionFrame

\* every offset failed: "return None" (line 116)
NoSafeTransition ==
    /\ transition.pc = "_find_safe_transition"
    /\ transition.attempt > Len(angle_offsets)
    /\ transition' = [transition EXCEPT !.pc = "done", !.path = NoPath]
    /\ TransitionFrame

\* optimize_loiter_sequence up to its loop (lines 127-132); loiters are
\* named by their position in the list passed in
OptimizeStart ==
    /\ transition.pc = "optimize_loiter_sequence"
    /\ transition' =
         IF Len(transition.loiters) <= 2
         THEN [transition EXCEPT !.pc = "done",
                                 !.optimized = [i \in 1 .. Len(transition.loiters) |-> i]]
         ELSE [transition EXCEPT !.pc = "optimize_loop",
                                 !.optimized = <<1>>,
                                 !.remaining = [i \in 1 .. Len(transition.loiters) - 1 |-> i + 1]]
    /\ TransitionFrame

\* one pass of "while remaining" (lines 134-148), and the return when the
\* list is used up (lines 150-151)
OptimizePick ==
    /\ transition.pc = "optimize_loop"
    /\ transition.remaining # <<>>
    /\ LET current == transition.loiters[transition.optimized[Len(transition.optimized)]]
           i == best_idx(transition.loiters, transition.remaining, get_exit_point(current))
       IN  transition' = [transition EXCEPT
              !.optimized = Append(@, transition.remaining[i]),
              !.remaining = pop_at(@, i),
              !.pc = IF Len(transition.remaining) = 1 THEN "done" ELSE "optimize_loop"]
    /\ TransitionFrame

NextTransition ==
    PlanTransition \/ FindSafeTransition \/ NoSafeTransition \/ OptimizeStart \/ OptimizePick

SpecTransition == InitTransition /\ [][NextTransition]_vars

---------------------------------------------------------------------------
(* normalize_angle (src/src/core/geometry.py)                              *)
(* Angles are whole milliradians; math.pi is Pi and 2 * math.pi is 2 * Pi. *)

Pi == 3142

\* "while angle < -math.pi: angle += 2 * math.pi"
RECURSIVE raise_angle(_)
raise_angle(angle) ==
    IF angle < -Pi THEN raise_angle(angle + 2 * Pi) ELSE angle

\* normalize_angle: "while angle > math.pi: angle -= 2 * math.pi", then the
\* second loop
RECURSIVE normalize_angle(_)
normalize_angle(angle) ==
    IF angle > Pi THEN normalize_angle(angle - 2 * Pi) ELSE raise_angle(angle)

MaxQuarterTurns == 8

\* multiples of pi / 2 up to MaxQuarterTurns, and the angles next to them
AngleInputs ==
    { k * (Pi \div 2) + e : k \in -MaxQuarterTurns .. MaxQuarterTurns, e \in {-1, 0, 1} }

InitAngle ==
    /\ start_position = Pt(1, 1)
    /\ grid = post_init_grid(start_position)
    /\ coverage_grid = post_init_coverage
    /\ obstacles = <<>>
    /\ op = NoOp
    /\ ncalls = 0
    /\ planner = NoPlanner
    /\ energy = NoEnergy
    /\ landing = NoLanding
    /\ pathfinder = NoPathfinder
    /\ transition = NoTransition
    /\ \E a \in AngleInputs :
          geometry = [pc |-> "call", angle |-> a, result |-> a, calls |-> 0]

GeometryFrame ==
    UNCHANGED <<start_position, grid, coverage_grid, obstacles, op, ncalls, planner, energy,
                landing, pathfinder, transition>>

\* normalize_angle(angle)
NormalizeAngle ==
    /\ geometry.pc = "call"
    /\ geometry' = [geometry EXCEPT !.result = normalize_angle(geometry.angle),
                                    !.calls = 1, !.pc = "returned"]
    /\ GeometryFrame

\* normalize_angle applied to its own result
NormalizeAgain ==
    /\ geometry.pc = "returned"
    /\ geometry.calls = 1
    /\ geometry' = [geometry EXCEPT !.angle = geometry.result,
                                    !.result = normalize_angle(geometry.result),
                                    !.calls = 2]
    /\ GeometryFrame

NextAngle == NormalizeAngle \/ NormalizeAgain

SpecAngle == InitAngle /\ [][NextAngle]_vars

---------------------------------------------------------------------------
(* generate_dubins_path (src/src/core/dubins.py)                           *)
(* Angles are milliradians; sines, cosines, the distance d and the segment *)
(* lengths t, p, q are thousandths; points are fixed-point map points.     *)

\* math.sin on [0, pi / 2], by its series to the seventh power
sin_quarter(x) ==
    LET x2 == (x * x) \div 1000
        a == 1000 - x2 \div 42
        b == 1000 - (x2 * a) \div 20000
        c == 1000 - (x2 * b) \div 6000
    IN  (x * c) \div 1000

\* math.sin
sin(x) ==
    LET a == normalize_angle(x)
        b == Abs(a)
        s == IF b > Pi \div 2 THEN sin_quarter(Pi - b) ELSE sin_quarter(b)
    IN  IF a < 0 THEN -s ELSE s

\* math.cos
cos(x) == sin(x + Pi \div 2)

\* the largest angle in lo .. hi whose tangent is at most y / x (0 <= y <= x)
RECURSIVE atan_between(_, _, _, _)
atan_between(y, x, lo, hi) ==
    IF lo >= hi THEN lo
    ELSE LET mid == (lo + hi + 1) \div 2
         IN  IF sin(mid) * x <= cos(mid) * y
             THEN atan_between(y, x, mid, hi)
             ELSE atan_between(y, x, lo, mid - 1)

\* math.atan2 for y >= 0, x >= 0, not both 0
atan_first(y, x) ==
    IF y <= x THEN atan_between(y, x, 0, Pi \div 4)
    ELSE Pi \div 2 - atan_between(x, y, 0, Pi \div 4)

\* math.atan2; the arguments are below 2^31 / 1000
atan2(y, x) ==
    CASE x = 0 /\ y = 0 -> 0
      [] x >= 0 /\ y >= 0 /\ ~(x = 0 /\ y = 0) -> atan_first(y, x)
      [] x < 0 /\ y >= 0 -> Pi - atan_first(y, -x)
      [] x < 0 /\ y < 0 -> -(Pi - atan_first(-y, -x))
      [] x >= 0 /\ y < 0 -> -atan_first(-y, x)

\* the largest angle in lo .. hi whose cosine is at least v
RECURSIVE acos_between(_, _, _)
acos_between(v, lo, hi) ==
    IF lo >= hi THEN lo
    ELSE LET mid == (lo + hi + 1) \div 2
         IN  IF cos(mid) >= v THEN acos_between(v, mid, hi)
             ELSE acos_between(v, lo, mid - 1)

\* math.acos, for -1 <= v <= 1
acos(v) == acos_between(v, 0, Pi)

\* class DubinsPathType, in the order "for path_type in DubinsPathType" takes
DubinsPathType == <<"LSL", "LSR", "RSL", "RSR", "RLR", "LRL">>

\* "return None" of _compute_dubins_segments
NoSegments == [valid |-> FALSE, t |-> 0, p |-> 0, q |-> 0]

\* "if t < 0: t += 2 * math.pi", the same for q, "return (t, p, q)"
segments(t, p, q) ==
    [ valid |-> TRUE,
      t |-> IF t < 0 THEN t + 2 * Pi ELSE t,
      p |-> p,
      q |-> IF q < 0 THEN q + 2 * Pi ELSE q ]

\* _compute_dubins_segments; tmp is in millionths
_compute_dubins_segments(d, alpha, beta, path_type) ==
    LET sa == sin(alpha)
        sb == sin(beta)
        ca == cos(alpha)
        cb == cos(beta)
        cab == cos(alpha - beta)
    IN  CASE path_type = "LSL" ->
               LET tmp == 2000000 + d * d - 2000 * cab + 2 * d * (sa - sb)
                   theta == atan2(cb - ca, d + sa - sb)
               IN  IF tmp < 0 THEN NoSegments
                   ELSE segments(normalize_angle(-alpha + theta), ISqrt(tmp),
                                 normalize_angle(beta - theta))
          [] path_type = "RSR" ->
               LET tmp == 2000000 + d * d - 2000 * cab + 2 * d * (sb - sa)
                   theta == atan2(ca - cb, d - sa + sb)
               IN  IF tmp < 0 THEN NoSegments
                   ELSE segments(normalize_angle(alpha - theta), ISqrt(tmp),
                                 normalize_angle(-beta + theta))
          [] path_type = "LSR" ->
               LET tmp == -2000000 + d * d + 2000 * cab + 2 * d * (sa + sb)
               IN  IF tmp < 0 THEN NoSegments
                   ELSE LET p == ISqrt(tmp)
                            theta == atan2(-ca - cb, d + sa + sb) - atan2(-2000, p)
                        IN  segments(normalize_angle(-alpha + theta), p,
                                     normalize_angle(-beta + theta))
          [] path_type = "RSL" ->
               LET tmp == -2000000 + d * d + 2000 * cab - 2 * d * (sa + sb)
               IN  IF tmp < 0 THEN NoSegments
                   ELSE LET p == ISqrt(tmp)
                            theta == atan2(ca + cb, d - sa - sb) - atan2(2000, p)
                        IN  segments(normalize_angle(alpha - theta), p,
                                     normalize_angle(beta - theta))
          [] path_type = "RLR" ->
               LET tmp == 6000000 - d * d + 2000 * cab + 2 * d * (sa - sb)
               IN  IF Abs(tmp) > 8000000 THEN NoSegments
                   ELSE LET p == 2 * Pi - acos(Trunc(tmp, 8000))
                            theta == atan2(ca - cb, d - sa + sb)
                            t == normalize_angle(alpha - theta + p \div 2)
                        IN  segments(t, p, normalize_angle(alpha - beta - t + p))
          [] path_type = "LRL" ->
               LET tmp == 6000000 - d * d + 2000 * cab + 2 * d * (sb - sa)
               IN  IF Abs(tmp) > 8000000 THEN NoSegments
                   ELSE LET p == 2 * Pi - acos(Trunc(tmp, 8000))
                            theta == atan2(ca - cb, d + sa - sb)
                            t == normalize_angle(-alpha + theta + p \div 2)
                        IN  segments(t, p, normalize_angle(beta - alpha - t + p))

\* "d", "alpha" and "beta" of generate_dubins_path (lines 196-203)
dubins_d(start, end, turn_radius) == (distance_to(start, end) * 1000) \div turn_radius
dubins_theta(start, end) == atan2(end[2] - start[2], end[1] - start[1])
dubins_alpha(start, start_heading, end) == normalize_angle(start_heading - dubins_theta(start, end))
dubins_beta(start, end, end_heading) == normalize_angle(end_heading - dubins_theta(start, end))

\* a comparison that keeps the family met last
keep_best_mut(best_path, path_type, result, turn_radius) ==
    IF ~result.valid THEN best_path
    ELSE [ path_type |-> path_type,
           segment1_length |-> result.t * turn_radius,
           segment2_length |-> result.p * turn_radius,
           segment3_length |-> result.q * turn_radius,
           total_length |-> (result.t + result.p + result.q) * turn_radius ]

\* the body of "for path_type in DubinsPathType" (lines 210-227): best_path
\* after one more family; best_length is inf while best_path is None
keep_best(best_path, path_type, result, turn_radius) ==
    IF ~result.valid THEN best_path
    ELSE LET length == (result.t + result.p + result.q) * turn_radius
         IN  IF best_path = NoPath \/ length < best_path.total_length
             THEN [ path_type |-> path_type,
                    segment1_length |-> result.t * turn_radius,
                    segment2_length |-> result.p * turn_radius,
                    segment3_length |-> result.q * turn_radius,
                    total_length |-> length ]
             ELSE best_path

DubinsStarts == { Pt(1, 1) }
DubinsEnds == { Pt(5, 1), Pt(1, 4), <<320, 270>>, <<160, 130>>, Pt(8, 5), <<30, 250>> }
StartHeadings == { 300, -2000, 2500 }
EndHeadings == { 1200, -700, 0 }
TurnRadii == { Scale, 2 * Scale }

InitDubins ==
    /\ start_position = Pt(1, 1)
    /\ grid = post_init_grid(start_position)
    /\ coverage_grid = post_init_coverage
    /\ obstacles = <<>>
    /\ op = NoOp
    /\ ncalls = 0
    /\ planner = NoPlanner
    /\ energy = NoEnergy
    /\ landing = NoLanding
    /\ pathfinder = NoPathfinder
    /\ transition = NoTransition
    /\ \E s \in DubinsStarts, e \in DubinsEnds, sh \in StartHeadings, eh \in EndHeadings,
          r \in TurnRadii :
          geometry = [ pc |-> "loop",
                       start |-> s, start_heading |-> sh, end |-> e, end_heading |-> eh,
                       turn_radius |-> r,
                       d |-> dubins_d(s, e, r),
                       alpha |-> dubins_alpha(s, sh, e),
                       beta |-> dubins_beta(s, e, eh),
                       tried |-> 0, best_path |-> NoPath ]

\* one pass of "for path_type in DubinsPathType"
TryPathType ==
    /\ geometry.pc = "loop"
    /\ geometry.tried < Len(DubinsPathType)
    /\ LET path_type == DubinsPathType[geometry.tried + 1]
           result == _compute_dubins_segments(geometry.d, geometry.alpha, geometry.beta,
                                              path_type)
       IN  geometry' = [geometry EXCEPT
              !.tried = @ + 1,
              !.best_path = keep_best(@, path_type, result, geometry.turn_radius)]
    /\ GeometryFrame

\* "return best_path"
ReturnBestPath ==
    /\ geometry.pc = "loop"
    /\ geometry.tried = Len(DubinsPathType)
    /\ geometry' = [geometry EXCEPT !.pc = "returned"]
    /\ GeometryFrame

NextDubins == TryPathType \/ ReturnBestPath

SpecDubins == InitDubins /\ [][NextDubins]_vars

---------------------------------------------------------------------------
(* Claims about SurveillanceMap, checked under SpecMap *)

HomeCell == point_to_cell(start_position)

\* precedence the specification gives the kinds: NO_FLY > OBSTACLE > SOFT_NO_FLY > FREE
Precedence(kind) ==
    CASE kind = NO_FLY -> 3
      [] kind = OBSTACLE -> 2
      [] kind = SOFT_NO_FLY -> 1
      [] OTHER -> 0

\* the kind an obstacle assigns to a cell: its hard kind inside the radius,
\* SOFT_NO_FLY in the margin annulus, nothing (FREE) outside
AssignedKind(ob, c) ==
    IF DistLeq(cell_to_point(c), ob.center, ob.radius) THEN obstacle_cell_type(ob)
    ELSE IF DistLeq(cell_to_point(c), ob.center, ob.radius + obstacle_margin_of(ob))
         THEN SOFT_NO_FLY
         ELSE FREE

InsideHardObstacle(c) ==
    \E i \in 1 .. Len(obstacles) :
        /\ obstacle_cell_type(obstacles[i]) \in {OBSTACLE, NO_FLY}
        /\ DistLeq(cell_to_point(c), obstacles[i].center, obstacles[i].radius)

\* C6: after any sequence of add_obstacle calls every cell other than the home
\* cell holds the highest-precedence kind (NO_FLY > OBSTACLE > SOFT_NO_FLY > FREE)
\* any obstacle added so far assigns to it; in particular a cell inside a hard
\* obstacle's radius is neither SOFT_NO_FLY nor FREE.
C6_KindNeverDowngrades ==
    \A c \in Cells :
        grid[c] # START =>
            /\ \A i \in 1 .. Len(obstacles) :
                   Precedence(grid[c]) >= Precedence(AssignedKind(obstacles[i], c))
            /\ InsideHardObstacle(c) => grid[c] \notin {SOFT_NO_FLY, FREE}

\* C7: the cell containing start_position is START after construction and after
\* every add_obstacle and mark_covered call.
C7_HomeCellStaysStart ==
    _is_valid_cell(HomeCell) => grid[HomeCell] = START

\* C7 witness: a hard obstacle's disk lies over the home cell and mark_covered
\* has been called
C7_Witness ==
    /\ _is_valid_cell(HomeCell)
    /\ InsideHardObstacle(HomeCell)
    /\ op.name = "mark_covered"
    /\ DistLeq(cell_to_point(HomeCell), op.center, op.radius)

InDisk(c, center, radius) == DistLeq(cell_to_point(c), center, radius)

\* C8: a mark_covered(center, radius, v) call sets coverage to max(old, v) on
\* every FREE cell whose centre is within the disk, leaves every other cell's
\* coverage and every cell's kind unchanged, lowers no coverage, and returns the
\* number of cells whose coverage went from below 0.5 to at least 0.5.
C8_MarkCoveredEffect ==
    [][ op'.name = "mark_covered" =>
          /\ grid' = grid
          /\ \A c \in Cells :
                /\ coverage_grid'[c] >= coverage_grid[c]
                /\ coverage_grid'[c] =
                     IF grid[c] = FREE /\ InDisk(c, op'.center, op'.radius)
                     THEN Max(coverage_grid[c], op'.value)
                     ELSE coverage_grid[c]
          /\ op'.ret = Cardinality({ c \in Cells :
                          2 * coverage_grid[c] < CovDen /\ 2 * coverage_grid'[c] >= CovDen })
      ]_vars

\* C8 witness: a call that returned a positive count although its disk also
\* held a non-FREE cell and a cell already covered more than the value passed
C8_Witness ==
    /\ op.name = "mark_covered"
    /\ op.ret > 0
    /\ \E c \in Cells : InDisk(c, op.center, op.radius) /\ grid[c] # FREE
    /\ \E c \in Cells : InDisk(c, op.center, op.radius) /\ coverage_grid[c] > op.value

\* what the claim says is_point_safe returns
SafeByKind(point, check_soft) ==
    ~ \/ ~_is_valid_cell(point_to_cell(point))
      \/ grid[point_to_cell(point)] \in {OBSTACLE, NO_FLY}
      \/ check_soft /\ grid[point_to_cell(point)] = SOFT_NO_FLY

\* C9: is_point_safe(p, check_soft) is false exactly when p's cell is outside
\* the grid, is OBSTACLE or NO_FLY, or is SOFT_NO_FLY with check_soft set; the
\* home cell is reported safe in every map state with either value of check_soft.
C9_IsPointSafe ==
    /\ \A p \in ProbePoints \cup {start_position}, cs \in BOOLEAN :
           is_point_safe(grid, p, cs) = SafeByKind(p, cs)
    /\ op.name = "is_point_safe" => op.ret = SafeByKind(op.point, op.check_soft)
    /\ _is_valid_cell(HomeCell) =>
           \A cs \in BOOLEAN : is_point_safe(grid, start_position, cs)

\* C9 witness: a query with check_soft on a SOFT_NO_FLY cell answered false
\* while an obstacle's disk lies over the home cell
C9_Witness ==
    /\ op.name = "is_point_safe"
    /\ op.check_soft
    /\ ~op.ret
    /\ _is_valid_cell(point_to_cell(op.point))
    /\ grid[point_to_cell(op.point)] = SOFT_NO_FLY
    /\ _is_valid_cell(HomeCell) /\ InsideHardObstacle(HomeCell)

---------------------------------------------------------------------------
(* Claims about CoveragePlanner.plan, checked under SpecPlan *)

Planning == planner.pc \in {"loop", "done"}

\* the step appends a loiter to the mission
Appends == Len(planner'.loiters) > Len(planner.loiters)

\* C1: every loiter of the mission keeps, from every obstacle of the map's
\* obstacle list, a centre distance of at least obstacle radius + loiter radius +
\* margin (no_fly_margin for a no-fly obstacle, obstacle_margin otherwise).
C1_LoitersObstacleSafe ==
    Planning =>
        \A i \in 1 .. Len(planner.loiters), j \in 1 .. Len(obstacles) :
            LET need == obstacles[j].radius + planner.loiters[i].radius
                          + (IF obstacles[j].is_no_fly THEN no_fly_margin ELSE obstacle_margin)
            IN  DistSq(planner.loiters[i].center, obstacles[j].center) >= need * need

\* C1 witness: a finished mission of two loiters on a map with two obstacles,
\* one of them a no-fly zone, whose kind grid was never rasterized
C1_Witness ==
    /\ planner.pc = "done"
    /\ Len(planner.loiters) >= 2
    /\ \E j \in 1 .. Len(obstacles) : obstacles[j].is_no_fly
    /\ \E j \in 1 .. Len(obstacles) : ~obstacles[j].is_no_fly
    /\ \A c \in Cells : grid[c] \in {FREE, START}

\* every candidate _find_best_loiter enumerates in bounds where the sample
\* takes the whole `uncovered` set
AllCandidates(p) ==
    LET G == grid_candidates(p, p.uncovered)
    IN  { evaluate(p, G[i]) : i \in 1 .. Len(G) }
          \cup { evaluate(p, cell_to_point(c)) : c \in p.uncovered }

\* C2: an iteration that appends a loiter strictly enlarges the covered set,
\* `uncovered` never gains a cell, and an iteration in which no valid candidate
\* would cover a cell ends the loop without appending.
C2_CoverageMonotone ==
    [][ planner.pc = "loop" =>
          /\ planner'.uncovered \subseteq planner.uncovered
          /\ planner.covered_cells \subseteq planner'.covered_cells
          /\ Appends =>
                /\ Cardinality(planner'.covered_cells) > Cardinality(planner.covered_cells)
                /\ planner'.uncovered # planner.uncovered
          /\ ~Appends => planner'.pc = "done" /\ planner'.uncovered = planner.uncovered
          /\ (\A c \in AllCandidates(planner) :
                 _is_valid_loiter_position(planner, c.center) => c.coverage = 0)
               => ~Appends
      ]_vars

\* C2 witness: a mission that appended loiters and then stopped in an
\* iteration that found nothing to cover, with cells still uncovered
C2_Witness ==
    /\ planner.pc = "done"
    /\ Len(planner.loiters) >= 2
    /\ planner.iteration > Len(planner.loiters)
    /\ planner.uncovered # {}

\* C3: a loiter is appended only while fewer than max_loiters are selected and
\* the covered percentage of the initially FREE cells is below
\* coverage_threshold; the mission never holds more than max_loiters loiters,
\* and with coverage_threshold = 0 it holds none.
C3_AppendOnlyBelowThreshold ==
    [][ Appends =>
          /\ Len(planner.loiters) < planner.max_loiters
          /\ 100 * Cardinality(planner.covered_cells)
                < planner.coverage_threshold * planner.total_free_cells
          /\ Len(planner'.loiters) <= planner.max_loiters
      ]_vars

\* centres _find_best_loiter can return in the current iteration
PossibleCenters == { b.center : b \in best_candidates(planner) }

\* C4: two runs on the same map with the same parameters select the same
\* loiters: in every iteration the candidate enumeration leaves one possible
\* result, whatever order the `uncovered` set is listed in.
C4_SelectionDeterministic ==
    (planner.pc = "loop" /\ planner.iteration < planner.max_loiters) =>
        /\ Cardinality(PossibleCenters) <= 1
        /\ ~(best_can_be_none(planner) /\ PossibleCenters # {})

LexLeq(a, b) == a[1] < b[1] \/ (a[1] = b[1] /\ a[2] <= b[2])

\* C5: the chosen candidate has the greatest score among the valid candidates
\* that cover a cell; among those of equal greatest score it has the lowest
\* cost, and among those also of equal cost the lexicographically smallest centre.
C5_BestCandidateChosen ==
    [][ Appends =>
          LET chosen == evaluate(planner, planner'.loiters[Len(planner'.loiters)].center)
          IN  \A c \in AllCandidates(planner) :
                 c.ok =>
                    /\ ~ScoreGt(c, chosen)
                    /\ ~ScoreGt(chosen, c) =>
                          /\ chosen.cost <= c.cost
                          /\ chosen.cost = c.cost => LexLeq(chosen.center, c.center)
      ]_vars

\* the first part of C5 alone
C5_MaxScoreOnly ==
    [][ Appends =>
          LET chosen == evaluate(planner, planner'.loiters[Len(planner'.loiters)].center)
          IN  chosen.ok /\ \A c \in AllCandidates(planner) : c.ok => ~ScoreGt(c, chosen)
      ]_vars

---------------------------------------------------------------------------
(* Claims about EnergyManager, checked under SpecEnergy *)

\* C10: whatever arguments the phase additions are given, every recorded phase
\* has energy_wh >= 0 and ends at a battery level no higher than it started at.
C10_BatteryNeverIncreases ==
    energy.pc = "on" =>
        \A i \in 1 .. Len(energy.phases) :
            /\ energy.phases[i].energy_wh >= 0
            /\ energy.phases[i].end_wh <= energy.phases[i].start_wh

\* what must be left for the reserve: capacity * 0.22
Reserve == fl((energy.battery_capacity_wh * RESERVE_FRACTION) \div 100)

\* C11: is_within_budget() is true exactly when capacity minus the sum of the
\* phase energies is at least capacity * 0.22, and a mission whose phase
\* energies sum to more than the usable 78% is not within budget.
C11_WithinBudgetIffReserve ==
    energy.pc = "on" =>
        /\ is_within_budget(energy)
              <=> fl(energy.battery_capacity_wh - sum_energy(energy.phases, 0)) >= Reserve
        /\ sum_energy(energy.phases, 0) > fl(energy.battery_capacity_wh - Reserve)
              => ~is_within_budget(energy)

\* C11 witness: is_within_budget() has answered false for a mission of two
\* phases or more whose energies sum to more than the usable 78%
C11_Witness ==
    /\ energy.pc = "on"
    /\ Len(energy.phases) >= 2
    /\ op.name = "is_within_budget" /\ ~op.ret
    /\ ~is_within_budget(energy)
    /\ sum_energy(energy.phases, 0) > energy.usable_wh

\* C12: can_afford_loiter(r, N) answers whether the budget is within budget
\* right after add_loiter(r, N), and leaves battery level and phase list alone.
C12_CanAffordIsForwardCheck ==
    [][ op'.name = "can_afford_loiter" /\ op' # op =>
          /\ energy' = energy
          /\ op'.ret <=> is_within_budget(
                 _consume(energy, loiter_phase(energy, op'.radius, op'.revolutions)))
      ]_vars

\* C29: the phases form an unbroken battery chain: the first starts at the
\* battery capacity, each ends at its start less its energy, each later one
\* starts where the one before ended, and the manager's running level equals
\* budget.remaining_wh, which equals the capacity less the sum of the
\* energy_by_type() values.
C29_UnbrokenBatteryChain ==
    energy.pc = "on" =>
        LET phases == energy.phases
        IN  /\ phases # <<>> => phases[1].start_wh = energy.battery_capacity_wh
            /\ \A i \in 1 .. Len(phases) :
                  phases[i].end_wh = fl(phases[i].start_wh - phases[i].energy_wh)
            /\ \A i \in 1 .. Len(phases) - 1 : phases[i + 1].start_wh = phases[i].end_wh
            /\ energy._current_wh = remaining_wh(energy)
            /\ remaining_wh(energy)
                  = fl(energy.battery_capacity_wh - sum_energy(energy_by_type(energy), 0))

\* the part of C29 that holds: the chain of start_wh and end_wh values, with
\* the running level at the end of it
C29_ChainOfLevels ==
    energy.pc = "on" =>
        LET phases == energy.phases
        IN  /\ phases # <<>> => phases[1].start_wh = energy.battery_capacity_wh
            /\ \A i \in 1 .. Len(phases) :
                  phases[i].end_wh = fl(phases[i].start_wh - phases[i].energy_wh)
            /\ \A i \in 1 .. Len(phases) - 1 : phases[i + 1].start_wh = phases[i].end_wh
            /\ phases # <<>> => energy._current_wh = phases[Len(phases)].end_wh

---------------------------------------------------------------------------
(* Claims about compute_descent_plan, checked under SpecLanding *)

Returned == landing.pc = "done"

Touchdowns == { i \in 1 .. Len(landing.waypoints) : landing.waypoints[i].phase = "touchdown" }

\* C13: compute_descent_plan returns, and the returned waypoint list holds
\* exactly one TOUCHDOWN waypoint, its last element, with altitude 0 and speed 0.
C13_EndsWithTouchdown ==
    /\ <>Returned
    /\ [](Returned =>
            /\ Touchdowns = { Len(landing.waypoints) }
            /\ landing.waypoints[Len(landing.waypoints)].altitude_m = 0
            /\ landing.waypoints[Len(landing.waypoints)].speed_ms = 0)

\* C13 witness: a plan returned after the spiral loop was cut off by its safety
\* limit, on terrain where the descent per loop is zero
C13_Witness ==
    /\ Returned
    /\ landing.descent_rate = 0
    /\ landing.loop > LOOP_LIMIT
    /\ landing.waypoints[Len(landing.waypoints)].phase = "touchdown"

\* C14: the plan's n_loops is ceil(start altitude / descent per loop), the loop
\* count add_descent uses for the same start altitude and terrain altitude.
C14_LoopCountIsCeil ==
    (Returned /\ compute_performance(landing.terrain_elevation_m).descent_rate_m_per_loop > 0) =>
        /\ landing.n_loops = ceil(landing.start_altitude_m,
                 compute_performance(landing.terrain_elevation_m).descent_rate_m_per_loop * 100)
        /\ landing.n_loops = descent_loops(
                 EnergyManager(landing.terrain_elevation_m, BATTERY_CAPACITY_WH),
                 landing.start_altitude_m \div 1000)

\* C15: the TOUCHDOWN waypoint and every APPROACH and FLARE waypoint lie within
\* radius_m of the loiter centre.
C15_LandsInsideCircle ==
    Returned =>
        \A i \in 1 .. Len(landing.waypoints) :
            landing.waypoints[i].phase \in {"approach", "flare", "touchdown"} =>
                DistLeq(<<landing.waypoints[i].x, landing.waypoints[i].y>>,
                        landing.center, landing.radius_m)

---------------------------------------------------------------------------
(* Claims about AStarPathfinder.find_path, checked under SpecPath *)

PathReturned == pathfinder.pc = "done"

SegmentSamples == 8

\* the points k / SegmentSamples of the way from p to q
segment_points(p, q) ==
    { <<p[1] + Trunc((q[1] - p[1]) * k, SegmentSamples),
        p[2] + Trunc((q[2] - p[2]) * k, SegmentSamples)>> : k \in 0 .. SegmentSamples }

\* the segment from p to q has a point in the interior of a blocked cell
crosses_blocked(blocked, p, q) ==
    \E pt \in segment_points(p, q) :
        /\ pt[1] > 0 /\ pt[1] < width /\ pt[1] % resolution # 0
        /\ pt[2] > 0 /\ pt[2] < height /\ pt[2] % resolution # 0
        /\ point_to_cell(pt) \in blocked

\* C16: in a returned path of more than one point, the straight segment
\* between any two consecutive points crosses no blocked cell of the inflated
\* grid (the pair [start, goal] returned when no path is found included).
C16_PathSegmentsClear ==
    (PathReturned /\ Len(pathfinder.path) > 1) =>
        \A i \in 1 .. Len(pathfinder.path) - 1 :
            ~crosses_blocked(pathfinder.blocked, pathfinder.path[i], pathfinder.path[i + 1])

\* C17: find_path returns on every map, start and goal, maps on which every
\* cell is blocked included.
C17_FindPathTerminates == <>PathReturned

\* the second part of C17 alone: when _astar finds no path the result is the
\* pair [start, goal]
C17_NoPathGivesPair ==
    [][ (pathfinder.pc = "astar" /\ pathfinder'.pc = "done") =>
            pathfinder'.path = <<pathfinder.start, pathfinder.goal>> ]_vars

---------------------------------------------------------------------------
(* Claims about TransitionPlanner, checked under SpecTransition *)

\* the cells reachable from the cells S by steps to one of the 8 neighbours
\* that is not blocked
RECURSIVE reachable_from(_, _)
reachable_from(blocked, S) ==
    LET more == S \cup { c \in Cells \ blocked :
                           \E s \in S : Abs(c[1] - s[1]) <= 1 /\ Abs(c[2] - s[2]) <= 1 }
    IN  IF more = S THEN S ELSE reachable_from(blocked, more)

\* the exit of from_loiter and the entry of to_loiter lie (clamped to the
\* grid) in unblocked cells joined by unblocked cells
LoitersConnected ==
    LET blocked == _create_blocked_grid(grid, 0)
        a == clamp_cell(point_to_cell(get_exit_point(transition.from_loiter)))
        b == clamp_cell(point_to_cell(get_entry_point(transition.to_loiter)))
    IN  a \notin blocked /\ b \in reachable_from(blocked, {a})

\* C18: with a map attached, plan_transition returns a transition (never
\* None) for two loiters that are connected through unblocked cells.
C18_AlwaysATransition ==
    (/\ transition.pc = "done"
     /\ transition.call = "plan_transition"
     /\ transition.has_map
     /\ LoitersConnected) => transition.path # NoPath

OptimizeReturned == transition.pc = "done" /\ transition.call = "optimize_loiter_sequence"

\* the positions (in the input list) not placed before place k of the result
NotYetPlaced(k) ==
    (1 .. Len(transition.loiters)) \ { transition.optimized[i] : i \in 1 .. k - 1 }

\* C19: optimize_loiter_sequence returns a permutation of its input that
\* starts with the input's first loiter; each later loiter is, among those not
\* yet placed, one whose centre is nearest to the exit point of the one before
\* it, and of several nearest ones the earliest in the input.
C19_NearestNeighbourOrder ==
    OptimizeReturned =>
        LET n == Len(transition.loiters)
            order == transition.optimized
            at(k) == transition.loiters[order[k]]
            d(k, j) == DistSq(get_exit_point(at(k - 1)), transition.loiters[j].center)
        IN  /\ Len(order) = n
            /\ { order[k] : k \in 1 .. n } = 1 .. n
            /\ n > 0 => order[1] = 1
            /\ \A k \in 2 .. n : \A j \in NotYetPlaced(k) :
                  \/ d(k, order[k]) < d(k, j)
                  \/ d(k, order[k]) = d(k, j) /\ order[k] <= j

\* C19 witness: three or more loiters were reordered, and at some place two
\* loiters not yet placed were equally near
C19_Witness ==
    /\ OptimizeReturned
    /\ Len(transition.loiters) >= 3
    /\ \E k \in 2 .. Len(transition.optimized) : transition.optimized[k] # k
    /\ \E k \in 2 .. Len(transition.optimized) : \E j \in NotYetPlaced(k) :
          /\ j # transition.optimized[k]
          /\ DistSq(get_exit_point(transition.loiters[transition.optimized[k - 1]]),
                    transition.loiters[j].center)
               = DistSq(get_exit_point(transition.loiters[transition.optimized[k - 1]]),
                        transition.loiters[transition.optimized[k]].center)

\* C26: when the planner has a map, every path plan_transition returns,
\* directly or after the entry-heading retries, has all of its waypoints
\* safe under is_point_safe: an unsafe path is never returned.
C26_ReturnedPathIsSafe ==
    (/\ transition.pc = "done"
     /\ transition.call = "plan_transition"
     /\ transition.has_map
     /\ transition.path # NoPath) =>
        \A k \in 1 .. Len(transition.path.waypoints) :
            is_point_safe(grid, transition.path.waypoints[k], FALSE)

\* C26 witness: on a map with an obstacle the direct path was unsafe and a
\* retry with a shifted entry heading returned a path
C26_Witness ==
    /\ transition.pc = "done"
    /\ transition.call = "plan_transition"
    /\ transition.has_map
    /\ obstacles # <<>>
    /\ transition.attempt > 1
    /\ transition.path # NoPath

\* C20: the mission returned by CoveragePlanner.plan has no transition when
\* it has no loiter, and otherwise one transition fewer than loiters, the
\* i-th transition going from the exit point of loiter i to the entry point
\* of loiter i + 1.
C20_TransitionsJoinLoiters ==
    planner.pc = "done" =>
        /\ Len(planner.transitions) = Max(Len(planner.loiters) - 1, 0)
        /\ \A i \in 1 .. Len(planner.transitions) :
              /\ planner.transitions[i].from = planner.loiters[i].exit
              /\ planner.transitions[i].to = planner.loiters[i + 1].entry

\* C20 witness: a returned mission with three or more loiters
C20_Witness ==
    /\ planner.pc = "done"
    /\ Len(planner.loiters) >= 3
    /\ Len(planner.transitions) = Len(planner.loiters) - 1

\* the FREE cells of the map, and those of them the map counts as covered
\* (get_coverage_percentage: covered_cells / free_cells)
FreeCells == { c \in Cells : grid[c] = FREE }
MapCovered == { c \in FreeCells : 2 * coverage_grid[c] >= CovDen }

\* C28: on a map whose coverage grid is all zero when plan() starts, the
\* planner's bookkeeping and the map stay in step: a FREE cell is missing
\* from `uncovered` exactly when its coverage value is at least 0.5, the
\* planner's covered percentage is that of get_coverage_percentage, and in
\* every iteration that adds a loiter the gain _estimate_coverage predicts
\* for it is the number of cells removed from `uncovered`.
C28_PlannerAndMapInStep ==
    /\ [](Planning =>
            /\ \A c \in FreeCells : c \notin planner.uncovered <=> c \in MapCovered
            /\ Cardinality(planner.covered_cells) * Cardinality(FreeCells)
                  = Cardinality(MapCovered) * planner.total_free_cells)
    /\ [][ (Planning /\ Len(planner.loiters') > Len(planner.loiters)) =>
             /\ planner.uncovered' \subseteq planner.uncovered
             /\ Cardinality(planner.uncovered \ planner.uncovered')
                   = _estimate_coverage(planner.loiters'[Len(planner.loiters')].center,
                                        planner.loiters'[Len(planner.loiters')].radius,
                                        planner.uncovered) ]_vars

\* C28 witness: plan() returned after two or more loiters, with cells that
\* were covered and cells left uncovered
C28_Witness ==
    /\ planner.pc = "done"
    /\ Len(planner.loiters) >= 2
    /\ planner.covered_cells # {}
    /\ planner.uncovered # {}
    /\ MapCovered # {}

---------------------------------------------------------------------------
(* Claims about the handling of invalid inputs *)

\* C21: an altitude outside [0, 11000] m is refused before anything is
\* computed: compute_descent_plan called with such a terrain altitude emits
\* no waypoint, runs no spiral loop and returns no plan.
C21_InvalidAltitudeRefused ==
    (landing.terrain_elevation_m < 0 \/ landing.terrain_elevation_m > 11000) =>
        /\ landing.waypoints = <<>>
        /\ landing.loop = 0
        /\ ~Returned

---------------------------------------------------------------------------
(* Claims about normalize_angle, checked under SpecAngle *)

\* the result differs from the argument by a whole number of turns
SameDirection(a, b) == (a - b) % (2 * Pi) = 0

\* C22: normalize_angle returns the equivalent angle in the half-open
\* interval (-pi, pi], so that -pi becomes pi, and normalising a result
\* again leaves it as it is.
C22_HalfOpenInterval ==
    geometry.pc = "returned" =>
        /\ SameDirection(geometry.result, geometry.angle)
        /\ geometry.result > -Pi
        /\ geometry.result <= Pi
        /\ normalize_angle(geometry.result) = geometry.result

\* what holds instead: the result lies in the closed interval [-pi, pi], and
\* normalize_angle is idempotent
C22_ClosedInterval ==
    geometry.pc = "returned" =>
        /\ SameDirection(geometry.result, geometry.angle)
        /\ geometry.result >= -Pi
        /\ geometry.result <= Pi
        /\ (geometry.calls = 2 => geometry.result = geometry.angle)

---------------------------------------------------------------------------
(* More claims about compute_descent_plan, checked under SpecLanding *)

\* C23: the spiral phase never emits more than 50 loops: the plan's n_loops
\* is at most 50 and no SPIRAL waypoint has a loop_number above 50 (stated
\* for terrain altitudes within [0, 11000] m).
C23_AtMostFiftyLoops ==
    landing.terrain_elevation_m \in 0 .. 11000 =>
        /\ Returned => landing.n_loops <= 50
        /\ \A i \in 1 .. Len(landing.waypoints) :
              landing.waypoints[i].phase = "spiral" => landing.waypoints[i].loop_number <= 50

\* the number of SPIRAL waypoints of the plan
SpiralCount == Cardinality({ i \in 1 .. Len(landing.waypoints) : landing.waypoints[i].phase = "spiral" })

\* C24: the waypoints of a returned plan are ordered by phase: first the
\* SPIRAL waypoints, a whole number of rings of waypoints_per_loop points
\* whose loop_number starts at 1 and never decreases, then exactly 12 APPROACH
\* waypoints, then exactly 6 FLARE waypoints, then exactly 1 TOUCHDOWN
\* waypoint, and no phase comes back after a later one has begun.
C24_PhasesInOrder ==
    Returned =>
        LET w == landing.waypoints
            s == SpiralCount
        IN  /\ Len(w) = s + 12 + 6 + 1
            /\ s % landing.waypoints_per_loop = 0
            /\ \A i \in 1 .. s : w[i].phase = "spiral"
            /\ s > 0 => w[1].loop_number = 1
            /\ \A i \in 1 .. s - 1 : w[i].loop_number <= w[i + 1].loop_number
            /\ \A i \in s + 1 .. s + 12 : w[i].phase = "approach"
            /\ \A i \in s + 13 .. s + 18 : w[i].phase = "flare"
            /\ w[s + 19].phase = "touchdown"

\* C24 witness: a returned plan with two or more rings of SPIRAL waypoints
\* followed by the three later phases
C24_Witness ==
    /\ Returned
    /\ SpiralCount >= 2 * landing.waypoints_per_loop
    /\ landing.waypoints[SpiralCount + 1].phase = "approach"
    /\ landing.waypoints[SpiralCount + 13].phase = "flare"

\* the start altitude followed by the altitudes of the waypoints emitted so far
AltitudeTrace ==
    <<landing.start_altitude_m>> \o
        [ i \in 1 .. Len(landing.waypoints) |-> landing.waypoints[i].altitude_m ]

\* C25: the descent is monotone: no waypoint is higher than the start
\* altitude or than a waypoint before it, and no altitude is negative
\* (stated for terrain altitudes within [0, 11000] m).
C25_AltitudeNeverRises ==
    landing.terrain_elevation_m \in 0 .. 11000 =>
        /\ \A i \in 1 .. Len(AltitudeTrace) - 1 : AltitudeTrace[i] >= AltitudeTrace[i + 1]
        /\ \A i \in 1 .. Len(AltitudeTrace) : AltitudeTrace[i] >= 0

---------------------------------------------------------------------------
(* Claims about generate_dubins_path, checked under SpecDubins *)

\* what _compute_dubins_segments gives for the k-th family on the call's input
FamilyResult(k) ==
    _compute_dubins_segments(geometry.d, geometry.alpha, geometry.beta, DubinsPathType[k])

FamilyLength(k) ==
    (FamilyResult(k).t + FamilyResult(k).p + FamilyResult(k).q) * geometry.turn_radius

ValidFamilies == { k \in 1 .. Len(DubinsPathType) : FamilyResult(k).valid }

\* C27: generate_dubins_path returns a family that is valid and whose total
\* length (t + p + q) * r no valid family undercuts, and it returns None
\* only when all six families are rejected.
C27_ShortestValidFamily ==
    geometry.pc = "returned" =>
        /\ geometry.best_path = NoPath <=> ValidFamilies = {}
        /\ geometry.best_path # NoPath =>
              /\ \E k \in ValidFamilies :
                    /\ DubinsPathType[k] = geometry.best_path.path_type
                    /\ FamilyLength(k) = geometry.best_path.total_length
              /\ \A k \in ValidFamilies :
                    FamilyLength(k) >= geometry.best_path.total_length

\* C27 witness: a path was returned while some family was rejected, and the
\* family returned is neither the first valid one nor the last
C27_Witness ==
    /\ geometry.pc = "returned"
    /\ geometry.best_path # NoPath
    /\ ValidFamilies # 1 .. Len(DubinsPathType)
    /\ \E k \in ValidFamilies, j \in ValidFamilies, i \in ValidFamilies :
          /\ j < k
          /\ k < i
          /\ DubinsPathType[k] = geometry.best_path.path_type
          /\ FamilyLength(j) > FamilyLength(k)
          /\ FamilyLength(i) > FamilyLength(k)

\* the inflated mask: the cells with an OBSTACLE, NO_FLY or SOFT_NO_FLY cell
\* within safety_cells of them in both axes
InflatedMask ==
    { c \in Cells :
        \E b \in Cells :
            /\ grid[b] \in {OBSTACLE, NO_FLY, SOFT_NO_FLY}
            /\ Abs(c[1] - b[1]) <= pathfinder.safety_cells
            /\ Abs(c[2] - b[2]) <= pathfinder.safety_cells }

AStarReturned == pathfinder.pc \in {"found", "done"}

\* C30: a non-empty cell path returned by _astar begins at the start cell,
\* ends at the goal cell, lies on cells of the grid that the inflated mask
\* does not block, and steps from each cell to one of its 8 neighbours; and
\* when the goal can be reached from the start through unblocked 8-connected
\* cells (within the iteration cap), the path returned is not empty.
C30_AStarPathSoundAndComplete ==
    AStarReturned =>
        LET path == pathfinder.path_cells
        IN  /\ path # <<>> =>
                  /\ path[1] = pathfinder.start_cell
                  /\ path[Len(path)] = pathfinder.goal_cell
                  /\ \A i \in 1 .. Len(path) :
                        _is_valid_cell(path[i]) /\ path[i] \notin InflatedMask
                  /\ \A i \in 1 .. Len(path) - 1 :
                        /\ path[i + 1] # path[i]
                        /\ Abs(path[i + 1][1] - path[i][1]) <= 1
                        /\ Abs(path[i + 1][2] - path[i][2]) <= 1
            /\ (/\ pathfinder.goal_cell \in reachable_from(InflatedMask, {pathfinder.start_cell})
                /\ Cardinality(Cells) < max_iterations) => path # <<>>

\* _astar has returned a path that goes round blocked cells: it is longer
\* than the straight run of cells between its ends would be
C30_Witness ==
    /\ AStarReturned
    /\ InflatedMask # {}
    /\ LET path == pathfinder.path_cells
       IN  /\ path # <<>>
           /\ Len(path) > 1 + Max(Abs(pathfinder.goal_cell[1] - pathfinder.start_cell[1]),
                                  Abs(pathfinder.goal_cell[2] - pathfinder.start_cell[2]))

\* _astar has returned [] for a goal that blocked cells cut off from the start
C30_NoPathWitness ==
    /\ pathfinder.pc = "done"
    /\ pathfinder.path_cells = <<>>
    /\ pathfinder.start_cell \notin InflatedMask
    /\ pathfinder.goal_cell \notin InflatedMask
    /\ pathfinder.goal_cell \notin reachable_from(InflatedMask, {pathfinder.start_cell})

=============================================================================
